---- MODULE Spec2Model ----
(***************************************************************************)
(* Model of five functions of createJLPTDeck.py: the additional-sense     *)
(* collector (find_addition_engl), the furigana aligner (make_furigana),   *)
(* the additional-definition filter (filter_english_definitions), the      *)
(* word-record normalizer (prepare_word_record) and the near-duplicate     *)
(* resolver (drop_equivalent_rows), the last two chained as transform      *)
(* chains them; and of AnkiPackage.add_note of jlpt_anki.py as load()      *)
(* calls it.  The other steps of transform (clean, lookup_dict, the audio  *)
(* merge and download, finalise) are not modelled.                         *)
(*                                                                         *)
(* Text is a sequence of Unicode code points (a Python str).  Dictionary   *)
(* abbreviations (misc markers, JLPT levels) are TLA+ strings.  A call's   *)
(* outcome is a record [kind, value]: kind "return" with the value, or     *)
(* kind "raise" with the name of the exception.                            *)
(***************************************************************************)
EXTENDS Integers, Sequences, FiniteSets, TLC

VARIABLES
    \* make_furigana(kanji, kana): arguments, locals of the loop, outcome
    mfpc, kanji, kana, tt, outWord, lastMatchLoc, scanPos, mfResult,
    \* filter_english_definitions(additional_lst, primary_eng_defns)
    fpc, additional_lst, primary_eng_defns, filtered_defs,
    \* transform(), lines 557 and 560: the table handed to prepare_word_record,
    \* the outcome of prepare_word_record, the outcome of drop_equivalent_rows
    tpc, df, rdf, out,
    \* find_addition_engl(entry): the senses of the entry, the loop's position
    \* in them, the groups collected
    apc, sense, ai, adds,
    \* AnkiPackage: self.audio, self.decks (the notes of each deck),
    \* self.entries, self.audio_paths, and the add_note calls made so far
    audio, decks, entries, audio_paths, calls

vars == <<mfpc, kanji, kana, tt, outWord, lastMatchLoc, scanPos, mfResult,
          fpc, additional_lst, primary_eng_defns, filtered_defs,
          tpc, df, rdf, out,
          apc, sense, ai, adds,
          audio, decks, entries, audio_paths, calls>>

mfVars == <<mfpc, kanji, kana, tt, outWord, lastMatchLoc, scanPos, mfResult>>
fVars == <<fpc, additional_lst, primary_eng_defns, filtered_defs>>
tVars == <<tpc, df, rdf, out>>
aVars == <<apc, sense, ai, adds>>
pVars == <<audio, decks, entries, audio_paths, calls>>

-----------------------------------------------------------------------------
(* Bounds of the model *)

MaxKanjiLen == 4
MaxKanaLen == 3
\* filter_english_definitions: definitions over all senses, primary definitions
MaxDefs == 3
MaxPrimary == 1
\* prepare_word_record and drop_equivalent_rows: rows of a table, length of
\* the forms of a one-row table
MaxRows == 3
MaxEntryLen == 2
\* find_addition_engl: senses of an entry
MaxSenses == 3
\* AnkiPackage: add_note calls on one package
MaxCalls == 3

-----------------------------------------------------------------------------
(* Python str and list primitives *)

Min(a, b) == IF a < b THEN a ELSE b

\* s[i:j] for 0 <= i, 0 <= j (Python clamps both ends to len(s))
Slice(s, i, j) ==
    LET lo == Min(i, Len(s))
        hi == Min(j, Len(s))
    IN  IF lo >= hi THEN << >> ELSE SubSeq(s, lo + 1, hi)

\* s[i:]
SliceFrom(s, i) == Slice(s, i, Len(s))

\* outcome records
Return(v) == [kind |-> "return", value |-> v]
Raise(e) == [kind |-> "raise", value |-> e]

\* all texts over an alphabet up to a length
Texts(alphabet, n) == UNION {[1..k -> alphabet] : k \in 0..n}

-----------------------------------------------------------------------------
(* Character classes of make_furigana *)

\* KANJI_PATTERN = r"[U+4E00-U+9FAF U+3005 U+FF10-U+FF19 U+FF21 U+2013 U+FF3A]+"
\* (the source writes the last three as FULLWIDTH A, EN DASH, FULLWIDTH Z:
\* the en dash is a literal member of the class, not a range operator)
IsKanjiChar(c) ==
    \/ c \in 19968..40879
    \/ c = 12293
    \/ c \in 65296..65305
    \/ c = 65313
    \/ c = 8211
    \/ c = 65338

\* KANA_PATTERN = r"[U+3041-U+3093 U+30A1-U+30FF]+"
IsKanaChar(c) ==
    \/ c \in 12353..12435
    \/ c \in 12449..12543

\* str.strip() whitespace (str.isspace)
IsSpace(c) ==
    \/ c \in 9..13
    \/ c \in 28..32
    \/ c \in {133, 160, 5760, 8232, 8233, 8239, 8287, 12288}
    \/ c \in 8192..8202

-----------------------------------------------------------------------------
(* Regular-expression primitives used by make_furigana (0-based offsets) *)

\* m.span()[1] of a KANJI_PATTERN match that starts at a: the end
\* (exclusive) of the maximal run of kanji-class characters from a
KanjiRunEnd(s, a) ==
    CHOOSE e \in a..Len(s) :
        /\ \A k \in a..(e - 1) : IsKanjiChar(s[k + 1])
        /\ (e = Len(s) \/ ~IsKanjiChar(s[e + 1]))

\* the same for a KANA_PATTERN match
KanaRunEnd(s, a) ==
    CHOOSE e \in a..Len(s) :
        /\ \A k \in a..(e - 1) : IsKanaChar(s[k + 1])
        /\ (e = Len(s) \/ ~IsKanaChar(s[e + 1]))

\* start of the leftmost KANJI_PATTERN match in s at or after from, -1 if
\* there is none
FirstKanjiIdx(s, from) ==
    LET hits == {i \in from..(Len(s) - 1) : IsKanjiChar(s[i + 1])}
    IN  IF hits = {} THEN -1
        ELSE CHOOSE i \in hits : \A j \in hits : i <= j

\* start of the leftmost KANA_PATTERN match in s at or after from, -1 if
\* there is none
FirstKanaIdx(s, from) ==
    LET hits == {i \in from..(Len(s) - 1) : IsKanaChar(s[i + 1])}
    IN  IF hits = {} THEN -1
        ELSE CHOOSE i \in hits : \A j \in hits : i <= j

\* re.search(pat, s).span()[0] for a literal, non-empty pat: offset of the
\* first occurrence of pat in s, -1 when re.search returns None
FindSub(pat, s) ==
    LET hits == {i \in 0..(Len(s) - Len(pat)) : Slice(s, i, i + Len(pat)) = pat}
    IN  IF hits = {} THEN -1
        ELSE CHOOSE i \in hits : \A j \in hits : i <= j

\* str.strip()
Strip(s) ==
    LET keep == {i \in 1..Len(s) : ~IsSpace(s[i])}
    IN  IF keep = {} THEN << >>
        ELSE LET lo == CHOOSE i \in keep : \A j \in keep : i <= j
                 hi == CHOOSE i \in keep : \A j \in keep : i >= j
             IN  SubSeq(s, lo, hi)

-----------------------------------------------------------------------------
(* find_addition_engl *)

\* A sense of a dictionary entry is a record [misc, partOfSpeech, gloss]:
\* misc and partOfSpeech are lists of abbreviations, gloss is the list of
\* the texts of its glosses (x["text"] for x in i["gloss"]).

\* lines 181-184: a misc marker of the sense is "arch" or "place"
ArchaicOrPlace(s) == \E k \in 1..Len(s.misc) : s.misc[k] \in {"arch", "place"}

\* variant: the part of speech is not compared
Accept_AnyPartOfSpeech(s, first) == ~ArchaicOrPlace(s)

\* lines 180-188: accept after the two tests (the lists of parts of speech
\* are compared as lists)
Accept(s, first) == ~ArchaicOrPlace(s) /\ s.partOfSpeech = first.partOfSpeech

\* lines 179-191: the loop over sense[1:], from the sense at offset i (0-based)
RECURSIVE AdditionLoop(_, _, _)
AdditionLoop(senses, i, collected) ==
    IF i >= Len(senses) THEN collected
    ELSE AdditionLoop(senses, i + 1,
                      IF Accept(senses[i + 1], senses[1])
                      THEN Append(collected, senses[i + 1].gloss) ELSE collected)

find_addition_engl(senses) == AdditionLoop(senses, 1, << >>)

-----------------------------------------------------------------------------
(* make_furigana *)

\* the locals on entry to the loop (lines 223-226)
FuriganaLocals == [tt |-> 0, outWord |-> << >>, lastMatchLoc |-> 0, scanPos |-> 0]

\* variant: the empty reading is let through as an empty result
EmptyKanaOutcome_Returns == Return(<< >>)

\* line 210-212: no kana reading
EmptyKanaOutcome == Raise("AssertionError")

\* variant: the (empty) kanji form is returned instead of the reading
EmptyKanjiOutcome_ReturnsKanji(kn) == Return(<< >>)

\* line 213-214: no kanji form
EmptyKanjiOutcome(kn) == Return(kn)

\* variant: what was assembled so far is returned
NotFoundOutcome_Partial(st) == Return(Strip(st.outWord))

\* line 245-246: the kana run after the kanji run is not in the reading
NotFoundOutcome(st) == Return(<< >>)

\* re.finditer(KANJI_PATTERN, kanji): start of the next match, -1 at the end
NextKanjiMatch(k, st) == FirstKanjiIdx(k, st.scanPos)

\* variant: the kana run is searched from the offset the brackets start at
KanaSearch_FromCursor(k, kn, st, b) ==
    LET m2start == FirstKanaIdx(k, b)
    IN  IF m2start = -1
        THEN [m2 |-> FALSE, found |-> FALSE, searchLoc |-> b, m3 |-> -1]
        ELSE LET m2group == Slice(k, m2start, KanaRunEnd(k, m2start))
                 searchLoc == FirstKanjiIdx(k, st.scanPos) + st.tt
                 m3 == FindSub(m2group, SliceFrom(kn, searchLoc))
             IN  [m2 |-> TRUE, found |-> m3 # -1, searchLoc |-> searchLoc, m3 |-> m3]

\* lines 239-243: m2 (the next kana run of the surface form after offset b)
\* and m3 (its first occurrence in kana[b + tt:]); found is m3 is not None
KanaSearch(k, kn, st, b) ==
    LET m2start == FirstKanaIdx(k, b)
    IN  IF m2start = -1
        THEN [m2 |-> FALSE, found |-> FALSE, searchLoc |-> b, m3 |-> -1]
        ELSE LET m2group == Slice(k, m2start, KanaRunEnd(k, m2start))
                 searchLoc == b + st.tt
                 m3 == FindSub(m2group, SliceFrom(kn, searchLoc))
             IN  [m2 |-> TRUE, found |-> m3 # -1, searchLoc |-> searchLoc, m3 |-> m3]

\* variant: the kana already taken by earlier kanji runs are not counted
Furigana_IgnoresEaten(kn, st, a, ks) ==
    IF ks.m2 THEN Slice(kn, a, ks.searchLoc + ks.m3)
    ELSE SliceFrom(kn, a)

\* lines 248-255: the text put in the brackets
Furigana(kn, st, a, ks) ==
    IF ks.m2 THEN Slice(kn, a + st.tt, ks.searchLoc + ks.m3)
    ELSE SliceFrom(kn, a + st.tt)

\* lines 232-263: one iteration of the loop, for the match starting at a,
\* when the search of line 243 did not fail
FuriganaStep(k, kn, st) ==
    LET a == NextKanjiMatch(k, st)
        b == KanjiRunEnd(k, a)
        ks == KanaSearch(k, kn, st, b)
        s == Furigana(kn, st, a, ks)
        o == <<32>> \o Slice(k, a, b) \o <<91>> \o s \o <<93>>
    IN  [tt |-> IF ks.m2 THEN st.tt + ks.m3 ELSE st.tt,
         outWord |-> st.outWord \o Slice(k, st.lastMatchLoc, a) \o o,
         lastMatchLoc |-> b,
         scanPos |-> b]

\* lines 239-246: does the iteration for the next match return early
StepFails(k, kn, st) ==
    LET a == NextKanjiMatch(k, st)
        ks == KanaSearch(k, kn, st, KanjiRunEnd(k, a))
    IN  ks.m2 /\ ~ks.found

\* variant: the assembled text is returned as it is
FuriganaExit_NoStrip(k, st) == Return(st.outWord \o SliceFrom(k, st.lastMatchLoc))

\* lines 265-269: after the loop
FuriganaExit(k, st) == Return(Strip(st.outWord \o SliceFrom(k, st.lastMatchLoc)))

RECURSIVE FuriganaLoop(_, _, _)
FuriganaLoop(k, kn, st) ==
    IF NextKanjiMatch(k, st) = -1 THEN FuriganaExit(k, st)
    ELSE IF StepFails(k, kn, st) THEN NotFoundOutcome(st)
    ELSE FuriganaLoop(k, kn, FuriganaStep(k, kn, st))

make_furigana(k, kn) ==
    IF kn = << >> THEN EmptyKanaOutcome
    ELSE IF k = << >> THEN EmptyKanjiOutcome(kn)
    ELSE FuriganaLoop(k, kn, FuriganaLocals)

-----------------------------------------------------------------------------
(* filter_english_definitions *)

\* line 289
letter_limit == 200

\* str.lower(), lines 290 and 300: the single-character lower-case mappings
\* of the interpreter's Unicode database (14.0.0), as rows
\* <<first, last, step, delta>>: a code point c with first <= c <= last
\* and (c - first) % step = 0 lowers to c + delta
LowerRanges ==
  << <<65, 90, 1, 32>>, <<192, 214, 1, 32>>, <<216, 222, 1, 32>>, <<256, 302, 2, 1>>,
     <<306, 310, 2, 1>>, <<313, 327, 2, 1>>, <<330, 374, 2, 1>>, <<376, 376, 1, -121>>,
     <<377, 381, 2, 1>>, <<385, 385, 1, 210>>, <<386, 388, 2, 1>>, <<390, 390, 1, 206>>,
     <<391, 391, 1, 1>>, <<393, 394, 1, 205>>, <<395, 395, 1, 1>>, <<398, 398, 1, 79>>,
     <<399, 399, 1, 202>>, <<400, 400, 1, 203>>, <<401, 401, 1, 1>>, <<403, 403, 1, 205>>,
     <<404, 404, 1, 207>>, <<406, 406, 1, 211>>, <<407, 407, 1, 209>>, <<408, 408, 1, 1>>,
     <<412, 412, 1, 211>>, <<413, 413, 1, 213>>, <<415, 415, 1, 214>>, <<416, 420, 2, 1>>,
     <<422, 422, 1, 218>>, <<423, 423, 1, 1>>, <<425, 425, 1, 218>>, <<428, 428, 1, 1>>,
     <<430, 430, 1, 218>>, <<431, 431, 1, 1>>, <<433, 434, 1, 217>>, <<435, 437, 2, 1>>,
     <<439, 439, 1, 219>>, <<440, 440, 1, 1>>, <<444, 444, 1, 1>>, <<452, 452, 1, 2>>,
     <<453, 453, 1, 1>>, <<455, 455, 1, 2>>, <<456, 456, 1, 1>>, <<458, 458, 1, 2>>,
     <<459, 475, 2, 1>>, <<478, 494, 2, 1>>, <<497, 497, 1, 2>>, <<498, 500, 2, 1>>,
     <<502, 502, 1, -97>>, <<503, 503, 1, -56>>, <<504, 542, 2, 1>>, <<544, 544, 1, -130>>,
     <<546, 562, 2, 1>>, <<570, 570, 1, 10795>>, <<571, 571, 1, 1>>, <<573, 573, 1, -163>>,
     <<574, 574, 1, 10792>>, <<577, 577, 1, 1>>, <<579, 579, 1, -195>>, <<580, 580, 1, 69>>,
     <<581, 581, 1, 71>>, <<582, 590, 2, 1>>, <<880, 882, 2, 1>>, <<886, 886, 1, 1>>,
     <<895, 895, 1, 116>>, <<902, 902, 1, 38>>, <<904, 906, 1, 37>>, <<908, 908, 1, 64>>,
     <<910, 911, 1, 63>>, <<913, 929, 1, 32>>, <<931, 939, 1, 32>>, <<975, 975, 1, 8>>,
     <<984, 1006, 2, 1>>, <<1012, 1012, 1, -60>>, <<1015, 1015, 1, 1>>, <<1017, 1017, 1, -7>>,
     <<1018, 1018, 1, 1>>, <<1021, 1023, 1, -130>>, <<1024, 1039, 1, 80>>, <<1040, 1071, 1, 32>>,
     <<1120, 1152, 2, 1>>, <<1162, 1214, 2, 1>>, <<1216, 1216, 1, 15>>, <<1217, 1229, 2, 1>>,
     <<1232, 1326, 2, 1>>, <<1329, 1366, 1, 48>>, <<4256, 4293, 1, 7264>>, <<4295, 4295, 1, 7264>>,
     <<4301, 4301, 1, 7264>>, <<5024, 5103, 1, 38864>>, <<5104, 5109, 1, 8>>, <<7312, 7354, 1, -3008>>,
     <<7357, 7359, 1, -3008>>, <<7680, 7828, 2, 1>>, <<7838, 7838, 1, -7615>>, <<7840, 7934, 2, 1>>,
     <<7944, 7951, 1, -8>>, <<7960, 7965, 1, -8>>, <<7976, 7983, 1, -8>>, <<7992, 7999, 1, -8>>,
     <<8008, 8013, 1, -8>>, <<8025, 8031, 2, -8>>, <<8040, 8047, 1, -8>>, <<8072, 8079, 1, -8>>,
     <<8088, 8095, 1, -8>>, <<8104, 8111, 1, -8>>, <<8120, 8121, 1, -8>>, <<8122, 8123, 1, -74>>,
     <<8124, 8124, 1, -9>>, <<8136, 8139, 1, -86>>, <<8140, 8140, 1, -9>>, <<8152, 8153, 1, -8>>,
     <<8154, 8155, 1, -100>>, <<8168, 8169, 1, -8>>, <<8170, 8171, 1, -112>>, <<8172, 8172, 1, -7>>,
     <<8184, 8185, 1, -128>>, <<8186, 8187, 1, -126>>, <<8188, 8188, 1, -9>>, <<8486, 8486, 1, -7517>>,
     <<8490, 8490, 1, -8383>>, <<8491, 8491, 1, -8262>>, <<8498, 8498, 1, 28>>, <<8544, 8559, 1, 16>>,
     <<8579, 8579, 1, 1>>, <<9398, 9423, 1, 26>>, <<11264, 11311, 1, 48>>, <<11360, 11360, 1, 1>>,
     <<11362, 11362, 1, -10743>>, <<11363, 11363, 1, -3814>>, <<11364, 11364, 1, -10727>>, <<11367, 11371, 2, 1>>,
     <<11373, 11373, 1, -10780>>, <<11374, 11374, 1, -10749>>, <<11375, 11375, 1, -10783>>, <<11376, 11376, 1, -10782>>,
     <<11378, 11378, 1, 1>>, <<11381, 11381, 1, 1>>, <<11390, 11391, 1, -10815>>, <<11392, 11490, 2, 1>>,
     <<11499, 11501, 2, 1>>, <<11506, 11506, 1, 1>>, <<42560, 42604, 2, 1>>, <<42624, 42650, 2, 1>>,
     <<42786, 42798, 2, 1>>, <<42802, 42862, 2, 1>>, <<42873, 42875, 2, 1>>, <<42877, 42877, 1, -35332>>,
     <<42878, 42886, 2, 1>>, <<42891, 42891, 1, 1>>, <<42893, 42893, 1, -42280>>, <<42896, 42898, 2, 1>>,
     <<42902, 42920, 2, 1>>, <<42922, 42922, 1, -42308>>, <<42923, 42923, 1, -42319>>, <<42924, 42924, 1, -42315>>,
     <<42925, 42925, 1, -42305>>, <<42926, 42926, 1, -42308>>, <<42928, 42928, 1, -42258>>, <<42929, 42929, 1, -42282>>,
     <<42930, 42930, 1, -42261>>, <<42931, 42931, 1, 928>>, <<42932, 42946, 2, 1>>, <<42948, 42948, 1, -48>>,
     <<42949, 42949, 1, -42307>>, <<42950, 42950, 1, -35384>>, <<42951, 42953, 2, 1>>, <<42960, 42960, 1, 1>>,
     <<42966, 42968, 2, 1>>, <<42997, 42997, 1, 1>>, <<65313, 65338, 1, 32>>, <<66560, 66599, 1, 40>>,
     <<66736, 66771, 1, 40>>, <<66928, 66964, 2, 39>>, <<66929, 66937, 2, 39>>, <<66941, 66953, 2, 39>>,
     <<66957, 66961, 2, 39>>, <<66965, 66965, 1, 39>>, <<68736, 68786, 1, 64>>, <<71840, 71871, 1, 32>>,
     <<93760, 93791, 1, 32>>, <<125184, 125217, 1, 34>> >>

\* str.lower(): the cased code points (upper-, lower- or title-case letters
\* and the other code points with a case property), as runs <<first, last>>
CasedRuns ==
  << <<65, 90>>, <<97, 122>>, <<170, 170>>, <<181, 181>>, <<186, 186>>,
     <<192, 214>>, <<216, 246>>, <<248, 442>>, <<444, 447>>, <<452, 659>>,
     <<661, 687>>, <<880, 883>>, <<886, 887>>, <<891, 893>>, <<895, 895>>,
     <<902, 902>>, <<904, 906>>, <<908, 908>>, <<910, 929>>, <<931, 1013>>,
     <<1015, 1153>>, <<1162, 1327>>, <<1329, 1366>>, <<1376, 1416>>, <<4256, 4293>>,
     <<4295, 4295>>, <<4301, 4301>>, <<4304, 4346>>, <<4349, 4351>>, <<5024, 5109>>,
     <<5112, 5117>>, <<7296, 7304>>, <<7312, 7354>>, <<7357, 7359>>, <<7424, 7467>>,
     <<7531, 7543>>, <<7545, 7578>>, <<7680, 7957>>, <<7960, 7965>>, <<7968, 8005>>,
     <<8008, 8013>>, <<8016, 8023>>, <<8025, 8025>>, <<8027, 8027>>, <<8029, 8029>>,
     <<8031, 8061>>, <<8064, 8116>>, <<8118, 8124>>, <<8126, 8126>>, <<8130, 8132>>,
     <<8134, 8140>>, <<8144, 8147>>, <<8150, 8155>>, <<8160, 8172>>, <<8178, 8180>>,
     <<8182, 8188>>, <<8450, 8450>>, <<8455, 8455>>, <<8458, 8467>>, <<8469, 8469>>,
     <<8473, 8477>>, <<8484, 8484>>, <<8486, 8486>>, <<8488, 8488>>, <<8490, 8493>>,
     <<8495, 8500>>, <<8505, 8505>>, <<8508, 8511>>, <<8517, 8521>>, <<8526, 8526>>,
     <<8544, 8575>>, <<8579, 8580>>, <<9398, 9449>>, <<11264, 11387>>, <<11390, 11492>>,
     <<11499, 11502>>, <<11506, 11507>>, <<11520, 11557>>, <<11559, 11559>>, <<11565, 11565>>,
     <<42560, 42605>>, <<42624, 42651>>, <<42786, 42863>>, <<42865, 42887>>, <<42891, 42894>>,
     <<42896, 42954>>, <<42960, 42961>>, <<42963, 42963>>, <<42965, 42969>>, <<42997, 42998>>,
     <<43002, 43002>>, <<43824, 43866>>, <<43872, 43880>>, <<43888, 43967>>, <<64256, 64262>>,
     <<64275, 64279>>, <<65313, 65338>>, <<65345, 65370>>, <<66560, 66639>>, <<66736, 66771>>,
     <<66776, 66811>>, <<66928, 66938>>, <<66940, 66954>>, <<66956, 66962>>, <<66964, 66965>>,
     <<66967, 66977>>, <<66979, 66993>>, <<66995, 67001>>, <<67003, 67004>>, <<68736, 68786>>,
     <<68800, 68850>>, <<71840, 71903>>, <<93760, 93823>>, <<119808, 119892>>, <<119894, 119964>>,
     <<119966, 119967>>, <<119970, 119970>>, <<119973, 119974>>, <<119977, 119980>>, <<119982, 119993>>,
     <<119995, 119995>>, <<119997, 120003>>, <<120005, 120069>>, <<120071, 120074>>, <<120077, 120084>>,
     <<120086, 120092>>, <<120094, 120121>>, <<120123, 120126>>, <<120128, 120132>>, <<120134, 120134>>,
     <<120138, 120144>>, <<120146, 120485>>, <<120488, 120512>>, <<120514, 120538>>, <<120540, 120570>>,
     <<120572, 120596>>, <<120598, 120628>>, <<120630, 120654>>, <<120656, 120686>>, <<120688, 120712>>,
     <<120714, 120744>>, <<120746, 120770>>, <<120772, 120779>>, <<122624, 122633>>, <<122635, 122654>>,
     <<125184, 125251>>, <<127280, 127305>>, <<127312, 127337>>, <<127344, 127369>> >>

\* str.lower(): the case-ignorable code points (marks, modifier letters,
\* apostrophe, full stop and the like), as runs <<first, last>>
CaseIgnorableRuns ==
  << <<39, 39>>, <<46, 46>>, <<58, 58>>, <<94, 94>>, <<96, 96>>,
     <<168, 168>>, <<173, 173>>, <<175, 175>>, <<180, 180>>, <<183, 184>>,
     <<688, 879>>, <<884, 885>>, <<890, 890>>, <<900, 901>>, <<903, 903>>,
     <<1155, 1161>>, <<1369, 1369>>, <<1375, 1375>>, <<1425, 1469>>, <<1471, 1471>>,
     <<1473, 1474>>, <<1476, 1477>>, <<1479, 1479>>, <<1524, 1524>>, <<1536, 1541>>,
     <<1552, 1562>>, <<1564, 1564>>, <<1600, 1600>>, <<1611, 1631>>, <<1648, 1648>>,
     <<1750, 1757>>, <<1759, 1768>>, <<1770, 1773>>, <<1807, 1807>>, <<1809, 1809>>,
     <<1840, 1866>>, <<1958, 1968>>, <<2027, 2037>>, <<2042, 2042>>, <<2045, 2045>>,
     <<2070, 2093>>, <<2137, 2139>>, <<2184, 2184>>, <<2192, 2193>>, <<2200, 2207>>,
     <<2249, 2306>>, <<2362, 2362>>, <<2364, 2364>>, <<2369, 2376>>, <<2381, 2381>>,
     <<2385, 2391>>, <<2402, 2403>>, <<2417, 2417>>, <<2433, 2433>>, <<2492, 2492>>,
     <<2497, 2500>>, <<2509, 2509>>, <<2530, 2531>>, <<2558, 2558>>, <<2561, 2562>>,
     <<2620, 2620>>, <<2625, 2626>>, <<2631, 2632>>, <<2635, 2637>>, <<2641, 2641>>,
     <<2672, 2673>>, <<2677, 2677>>, <<2689, 2690>>, <<2748, 2748>>, <<2753, 2757>>,
     <<2759, 2760>>, <<2765, 2765>>, <<2786, 2787>>, <<2810, 2815>>, <<2817, 2817>>,
     <<2876, 2876>>, <<2879, 2879>>, <<2881, 2884>>, <<2893, 2893>>, <<2901, 2902>>,
     <<2914, 2915>>, <<2946, 2946>>, <<3008, 3008>>, <<3021, 3021>>, <<3072, 3072>>,
     <<3076, 3076>>, <<3132, 3132>>, <<3134, 3136>>, <<3142, 3144>>, <<3146, 3149>>,
     <<3157, 3158>>, <<3170, 3171>>, <<3201, 3201>>, <<3260, 3260>>, <<3263, 3263>>,
     <<3270, 3270>>, <<3276, 3277>>, <<3298, 3299>>, <<3328, 3329>>, <<3387, 3388>>,
     <<3393, 3396>>, <<3405, 3405>>, <<3426, 3427>>, <<3457, 3457>>, <<3530, 3530>>,
     <<3538, 3540>>, <<3542, 3542>>, <<3633, 3633>>, <<3636, 3642>>, <<3654, 3662>>,
     <<3761, 3761>>, <<3764, 3772>>, <<3782, 3782>>, <<3784, 3789>>, <<3864, 3865>>,
     <<3893, 3893>>, <<3895, 3895>>, <<3897, 3897>>, <<3953, 3966>>, <<3968, 3972>>,
     <<3974, 3975>>, <<3981, 3991>>, <<3993, 4028>>, <<4038, 4038>>, <<4141, 4144>>,
     <<4146, 4151>>, <<4153, 4154>>, <<4157, 4158>>, <<4184, 4185>>, <<4190, 4192>>,
     <<4209, 4212>>, <<4226, 4226>>, <<4229, 4230>>, <<4237, 4237>>, <<4253, 4253>>,
     <<4348, 4348>>, <<4957, 4959>>, <<5906, 5908>>, <<5938, 5939>>, <<5970, 5971>>,
     <<6002, 6003>>, <<6068, 6069>>, <<6071, 6077>>, <<6086, 6086>>, <<6089, 6099>>,
     <<6103, 6103>>, <<6109, 6109>>, <<6155, 6159>>, <<6211, 6211>>, <<6277, 6278>>,
     <<6313, 6313>>, <<6432, 6434>>, <<6439, 6440>>, <<6450, 6450>>, <<6457, 6459>>,
     <<6679, 6680>>, <<6683, 6683>>, <<6742, 6742>>, <<6744, 6750>>, <<6752, 6752>>,
     <<6754, 6754>>, <<6757, 6764>>, <<6771, 6780>>, <<6783, 6783>>, <<6823, 6823>>,
     <<6832, 6862>>, <<6912, 6915>>, <<6964, 6964>>, <<6966, 6970>>, <<6972, 6972>>,
     <<6978, 6978>>, <<7019, 7027>>, <<7040, 7041>>, <<7074, 7077>>, <<7080, 7081>>,
     <<7083, 7085>>, <<7142, 7142>>, <<7144, 7145>>, <<7149, 7149>>, <<7151, 7153>>,
     <<7212, 7219>>, <<7222, 7223>>, <<7288, 7293>>, <<7376, 7378>>, <<7380, 7392>>,
     <<7394, 7400>>, <<7405, 7405>>, <<7412, 7412>>, <<7416, 7417>>, <<7468, 7530>>,
     <<7544, 7544>>, <<7579, 7679>>, <<8125, 8125>>, <<8127, 8129>>, <<8141, 8143>>,
     <<8157, 8159>>, <<8173, 8175>>, <<8189, 8190>>, <<8203, 8207>>, <<8216, 8217>>,
     <<8228, 8228>>, <<8231, 8231>>, <<8234, 8238>>, <<8288, 8292>>, <<8294, 8303>>,
     <<8305, 8305>>, <<8319, 8319>>, <<8336, 8348>>, <<8400, 8432>>, <<11388, 11389>>,
     <<11503, 11505>>, <<11631, 11631>>, <<11647, 11647>>, <<11744, 11775>>, <<11823, 11823>>,
     <<12293, 12293>>, <<12330, 12333>>, <<12337, 12341>>, <<12347, 12347>>, <<12441, 12446>>,
     <<12540, 12542>>, <<40981, 40981>>, <<42232, 42237>>, <<42508, 42508>>, <<42607, 42610>>,
     <<42612, 42621>>, <<42623, 42623>>, <<42652, 42655>>, <<42736, 42737>>, <<42752, 42785>>,
     <<42864, 42864>>, <<42888, 42890>>, <<42994, 42996>>, <<43000, 43001>>, <<43010, 43010>>,
     <<43014, 43014>>, <<43019, 43019>>, <<43045, 43046>>, <<43052, 43052>>, <<43204, 43205>>,
     <<43232, 43249>>, <<43263, 43263>>, <<43302, 43309>>, <<43335, 43345>>, <<43392, 43394>>,
     <<43443, 43443>>, <<43446, 43449>>, <<43452, 43453>>, <<43471, 43471>>, <<43493, 43494>>,
     <<43561, 43566>>, <<43569, 43570>>, <<43573, 43574>>, <<43587, 43587>>, <<43596, 43596>>,
     <<43632, 43632>>, <<43644, 43644>>, <<43696, 43696>>, <<43698, 43700>>, <<43703, 43704>>,
     <<43710, 43711>>, <<43713, 43713>>, <<43741, 43741>>, <<43756, 43757>>, <<43763, 43764>>,
     <<43766, 43766>>, <<43867, 43871>>, <<43881, 43883>>, <<44005, 44005>>, <<44008, 44008>>,
     <<44013, 44013>>, <<64286, 64286>>, <<64434, 64450>>, <<65024, 65039>>, <<65043, 65043>>,
     <<65056, 65071>>, <<65106, 65106>>, <<65109, 65109>>, <<65279, 65279>>, <<65287, 65287>>,
     <<65294, 65294>>, <<65306, 65306>>, <<65342, 65342>>, <<65344, 65344>>, <<65392, 65392>>,
     <<65438, 65439>>, <<65507, 65507>>, <<65529, 65531>>, <<66045, 66045>>, <<66272, 66272>>,
     <<66422, 66426>>, <<67456, 67461>>, <<67463, 67504>>, <<67506, 67514>>, <<68097, 68099>>,
     <<68101, 68102>>, <<68108, 68111>>, <<68152, 68154>>, <<68159, 68159>>, <<68325, 68326>>,
     <<68900, 68903>>, <<69291, 69292>>, <<69446, 69456>>, <<69506, 69509>>, <<69633, 69633>>,
     <<69688, 69702>>, <<69744, 69744>>, <<69747, 69748>>, <<69759, 69761>>, <<69811, 69814>>,
     <<69817, 69818>>, <<69821, 69821>>, <<69826, 69826>>, <<69837, 69837>>, <<69888, 69890>>,
     <<69927, 69931>>, <<69933, 69940>>, <<70003, 70003>>, <<70016, 70017>>, <<70070, 70078>>,
     <<70089, 70092>>, <<70095, 70095>>, <<70191, 70193>>, <<70196, 70196>>, <<70198, 70199>>,
     <<70206, 70206>>, <<70367, 70367>>, <<70371, 70378>>, <<70400, 70401>>, <<70459, 70460>>,
     <<70464, 70464>>, <<70502, 70508>>, <<70512, 70516>>, <<70712, 70719>>, <<70722, 70724>>,
     <<70726, 70726>>, <<70750, 70750>>, <<70835, 70840>>, <<70842, 70842>>, <<70847, 70848>>,
     <<70850, 70851>>, <<71090, 71093>>, <<71100, 71101>>, <<71103, 71104>>, <<71132, 71133>>,
     <<71219, 71226>>, <<71229, 71229>>, <<71231, 71232>>, <<71339, 71339>>, <<71341, 71341>>,
     <<71344, 71349>>, <<71351, 71351>>, <<71453, 71455>>, <<71458, 71461>>, <<71463, 71467>>,
     <<71727, 71735>>, <<71737, 71738>>, <<71995, 71996>>, <<71998, 71998>>, <<72003, 72003>>,
     <<72148, 72151>>, <<72154, 72155>>, <<72160, 72160>>, <<72193, 72202>>, <<72243, 72248>>,
     <<72251, 72254>>, <<72263, 72263>>, <<72273, 72278>>, <<72281, 72283>>, <<72330, 72342>>,
     <<72344, 72345>>, <<72752, 72758>>, <<72760, 72765>>, <<72767, 72767>>, <<72850, 72871>>,
     <<72874, 72880>>, <<72882, 72883>>, <<72885, 72886>>, <<73009, 73014>>, <<73018, 73018>>,
     <<73020, 73021>>, <<73023, 73029>>, <<73031, 73031>>, <<73104, 73105>>, <<73109, 73109>>,
     <<73111, 73111>>, <<73459, 73460>>, <<78896, 78904>>, <<92912, 92916>>, <<92976, 92982>>,
     <<92992, 92995>>, <<94031, 94031>>, <<94095, 94111>>, <<94176, 94177>>, <<94179, 94180>>,
     <<110576, 110579>>, <<110581, 110587>>, <<110589, 110590>>, <<113821, 113822>>, <<113824, 113827>>,
     <<118528, 118573>>, <<118576, 118598>>, <<119143, 119145>>, <<119155, 119170>>, <<119173, 119179>>,
     <<119210, 119213>>, <<119362, 119364>>, <<121344, 121398>>, <<121403, 121452>>, <<121461, 121461>>,
     <<121476, 121476>>, <<121499, 121503>>, <<121505, 121519>>, <<122880, 122886>>, <<122888, 122904>>,
     <<122907, 122913>>, <<122915, 122916>>, <<122918, 122922>>, <<123184, 123197>>, <<123566, 123566>>,
     <<123628, 123631>>, <<125136, 125142>>, <<125252, 125259>>, <<127995, 127999>>, <<917505, 917505>>,
     <<917536, 917631>>, <<917760, 917999>> >>

\* membership of a code point in a table of runs
InRuns(c, runs) == \E k \in 1..Len(runs) : runs[k][1] <= c /\ c <= runs[k][2]

\* str.lower(): the code point is cased
IsCased(c) == InRuns(c, CasedRuns)

\* str.lower(): the code point is skipped when looking for the neighbours of
\* a capital sigma
IsCaseIgnorable(c) == InRuns(c, CaseIgnorableRuns)

\* str.lower() on a string of the one character c: U+0130 lowers to two
\* characters, a character without a lower-case form is kept
LowerChar(c) ==
    IF c < 128 THEN (IF c \in 65..90 THEN <<c + 32>> ELSE <<c>>)
    ELSE IF c = 304 THEN <<105, 775>>
    ELSE LET hits == {k \in 1..Len(LowerRanges) :
                        /\ LowerRanges[k][1] <= c
                        /\ c <= LowerRanges[k][2]
                        /\ (c - LowerRanges[k][1]) % LowerRanges[k][3] = 0}
         IN  IF hits = {} THEN <<c>>
             ELSE <<c + LowerRanges[CHOOSE k \in hits : TRUE][4]>>

\* str.lower(): the capital sigma at position i ends a word: the nearest
\* character before it that is not case-ignorable is cased, and the nearest
\* one after it, if any, is not
FinalSigma(s, i) ==
    LET before == {j \in 1..(i - 1) : ~IsCaseIgnorable(s[j])}
        after == {j \in (i + 1)..Len(s) : ~IsCaseIgnorable(s[j])}
    IN  /\ before # {}
        /\ IsCased(s[CHOOSE j \in before : \A l \in before : l <= j])
        /\ \/ after = {}
           \/ ~IsCased(s[CHOOSE j \in after : \A l \in after : j <= l])

\* str.lower(): what the character at position i becomes: U+03A3 lowers to
\* the final or the medial small sigma, any other character as it does
\* alone
LowerAt(s, i) ==
    IF s[i] = 931 THEN <<IF FinalSigma(s, i) THEN 962 ELSE 963>>
    ELSE LowerChar(s[i])

\* str.lower() from position i on
RECURSIVE LowerFrom(_, _)
LowerFrom(s, i) ==
    IF i > Len(s) THEN << >> ELSE LowerAt(s, i) \o LowerFrom(s, i + 1)

\* str.lower()
Lower(s) ==
    IF \A i \in 1..Len(s) : s[i] # 304
    THEN [i \in 1..Len(s) |-> LowerAt(s, i)[1]]
    ELSE LowerFrom(s, 1)

\* line 290: first_defs
FirstDefs(primary) == {Lower(primary[i]) : i \in 1..Len(primary)}

\* lines 296-297: the definitions in the order the two loops visit them
RECURSIVE Flatten(_)
Flatten(lst) == IF lst = << >> THEN << >> ELSE Head(lst) \o Flatten(Tail(lst))

\* variant: duplicates are recognised only when the casing is the same
IsNewDefinition_CaseSensitive(s, first_defs, kept) ==
    /\ Lower(s) \notin first_defs
    /\ \A i \in 1..Len(kept) : kept[i] # s

\* line 302: seen is the set of lower-cased definitions kept so far
IsNewDefinition(s, first_defs, kept) ==
    LET defn_lower == Lower(s)
    IN  /\ defn_lower \notin first_defs
        /\ \A i \in 1..Len(kept) : Lower(kept[i]) # defn_lower

\* lines 293-304: the loop over the flattened definitions, kept so far
RECURSIVE DedupLoop(_, _, _)
DedupLoop(flat, first_defs, kept) ==
    IF flat = << >> THEN kept
    ELSE DedupLoop(Tail(flat), first_defs,
                   IF IsNewDefinition(Head(flat), first_defs, kept)
                   THEN Append(kept, Head(flat)) ELSE kept)

Dedup(lst, primary) == DedupLoop(Flatten(lst), FirstDefs(primary), << >>)

\* line 309: letter_count after the first i definitions
RECURSIVE LetterCount(_, _)
LetterCount(defs, i) == IF i = 0 THEN 0 ELSE LetterCount(defs, i - 1) + Len(defs[i])

\* variant: a count that reaches the limit already cuts
LimitLetters_AtLimit(defs) ==
    LET over == {i \in 1..Len(defs) : LetterCount(defs, i) >= letter_limit}
    IN  IF over = {} THEN defs
        ELSE SubSeq(defs, 1, (CHOOSE i \in over : \A j \in over : i <= j) - 1)

\* variant: the definition that takes the count over the limit is kept
LimitLetters_KeepOverflowing(defs) ==
    LET over == {i \in 1..Len(defs) : LetterCount(defs, i) > letter_limit}
    IN  IF over = {} THEN defs
        ELSE SubSeq(defs, 1, CHOOSE i \in over : \A j \in over : i <= j)

\* lines 305-312: cut at the first definition that takes the count over the limit
LimitLetters(defs) ==
    LET over == {i \in 1..Len(defs) : LetterCount(defs, i) > letter_limit}
    IN  IF over = {} THEN defs
        ELSE SubSeq(defs, 1, (CHOOSE i \in over : \A j \in over : i <= j) - 1)

filter_english_definitions(lst, primary) == LimitLetters(Dedup(lst, primary))

-----------------------------------------------------------------------------
(* prepare_word_record *)

\* A row of the table handed to prepare_word_record has the columns
\*   index (the DataFrame's row label), kanji and jlpt_level (from the JLPT
\*   csv), reading_kanji, reading_kana, english_definition, grammar,
\*   additional and misc (from lookup_dict).
\* The csv columns jmdict_seq, kana and waller_definition are carried along
\* unread by the two functions and are left out.

\* str.join
RECURSIVE Join(_, _)
Join(texts, sep) ==
    IF texts = << >> THEN << >>
    ELSE IF Len(texts) = 1 THEN texts[1]
    ELSE texts[1] \o sep \o Join(Tail(texts), sep)

RECURSIVE JoinStr(_, _)
JoinStr(strs, sep) ==
    IF strs = << >> THEN ""
    ELSE IF Len(strs) = 1 THEN strs[1]
    ELSE strs[1] \o sep \o JoinStr(Tail(strs), sep)

\* ", "
CommaSpace == <<44, 32>>

\* jmdict_tags_mapping: the entries load_jmdict_json_zip sets itself (the
\* rest comes from the dictionary file).  The three ideographs that end
\* each formality label are written by their code points.
jmdict_tags_mapping(x) ==
    CASE x = "n" -> "noun"
      [] x = "hon" -> "honorific/U+5C0A U+656C U+8A9E"
      [] x = "pol" -> "polite/U+4E01 U+5BE7 U+8A9E"
      [] x = "hum" -> "humble/U+8B19 U+8B72 U+8A9E"

\* line 424
formal_tags == {"hon", "pol", "hum"}

InList(x, lst) == \E i \in 1..Len(lst) : lst[i] = x

\* line 413
UsuallyKana(row) == InList("uk", row.misc)

\* variant: the furigana are made whatever the misc markers say
Reading_AlwaysFurigana(row) == make_furigana(row.reading_kanji, row.reading_kana)

\* variant: an alignment that gave nothing is replaced by the plain reading
Reading_FallsBackToKana(row) ==
    IF UsuallyKana(row) THEN Return(row.reading_kana)
    ELSE IF make_furigana(row.reading_kanji, row.reading_kana) = Return(<< >>)
         THEN Return(row.reading_kana)
         ELSE make_furigana(row.reading_kanji, row.reading_kana)

\* lines 416-419: the outcome of the lambda for one row
Reading(row) ==
    IF UsuallyKana(row) THEN Return(row.reading_kana)
    ELSE make_furigana(row.reading_kanji, row.reading_kana)

\* line 425
Formality(row) ==
    LET IsFormal(x) == x \in formal_tags
        kept == SelectSeq(row.misc, IsFormal)
    IN  [i \in 1..Len(kept) |-> jmdict_tags_mapping(kept[i])]

\* line 428
Rare(row) ==
    LET IsRare(x) == x = "rare"
        kept == SelectSeq(row.misc, IsRare)
    IN  [i \in 1..Len(kept) |-> "rare_term"]

\* lines 430-431
Tags(row) ==
    Formality(row) \o <<IF UsuallyKana(row) THEN "usually_kana" ELSE "">> \o Rare(row)

\* line 433
Expression(row) ==
    IF row.reading_kanji # << >> THEN row.reading_kanji ELSE row.reading_kana

\* lines 404-433 for one row whose reading was made
PreparedRow(row) ==
    [index |-> row.index,
     kanji |-> row.kanji,
     jlpt_level |-> row.jlpt_level,
     reading_kanji |-> row.reading_kanji,
     reading_kana |-> row.reading_kana,
     additional |-> row.additional,
     misc |-> row.misc,
     english_definition |-> Join(row.english_definition, CommaSpace),
     grammar |-> JoinStr([i \in 1..Len(row.grammar) |-> jmdict_tags_mapping(row.grammar[i])], ", "),
     reduced_additional |->
         Join(filter_english_definitions(row.additional, row.english_definition), CommaSpace),
     usually_kana |-> UsuallyKana(row),
     reading |-> Reading(row).value,
     formality |-> Formality(row),
     rare |-> Rare(row),
     tags |-> Tags(row),
     expression |-> Expression(row)]

\* the whole call: the exception of make_furigana, raised for a row, ends it
prepare_word_record(table) ==
    IF \E i \in 1..Len(table) : Reading(table[i]).kind = "raise"
    THEN Raise("AssertionError")
    ELSE Return([i \in 1..Len(table) |-> PreparedRow(table[i])])

-----------------------------------------------------------------------------
(* drop_equivalent_rows *)

\* line 498
KnownLevels == {"N5", "N4", "N3", "N2", "N1", "common"}

\* variant: N1 and N2 change places
jlpt_rank_Swapped(level) ==
    CASE level = "N5" -> 1
      [] level = "N4" -> 2
      [] level = "N3" -> 3
      [] level = "N2" -> 5
      [] level = "N1" -> 4
      [] level = "common" -> 6

\* line 498
jlpt_rank(level) ==
    CASE level = "N5" -> 1
      [] level = "N4" -> 2
      [] level = "N3" -> 3
      [] level = "N2" -> 4
      [] level = "N1" -> 5
      [] level = "common" -> 6

\* line 494
has_kanji_and_usually_kana(row) == row.kanji # << >> /\ InList("usually_kana", row.tags)

\* line 495
blank_kanji(row) == row.kanji = << >>

\* variant: every kanji+usually_kana row is paired with every blank row
Pairs_AcrossGroups(table) ==
    {p \in (1..Len(table)) \X (1..Len(table)) :
        /\ has_kanji_and_usually_kana(table[p[1]])
        /\ blank_kanji(table[p[2]])}

\* lines 504-511: the (i1, i2) the two inner loops visit, as positions
Pairs(table) ==
    {p \in (1..Len(table)) \X (1..Len(table)) :
        /\ table[p[1]].reading = table[p[2]].reading
        /\ has_kanji_and_usually_kana(table[p[1]])
        /\ blank_kanji(table[p[2]])}

\* lines 513-514: does a lookup in jlpt_rank raise KeyError
RankRaises(table) ==
    \E p \in Pairs(table) :
        \/ table[p[1]].jlpt_level \notin KnownLevels
        \/ table[p[2]].jlpt_level \notin KnownLevels

\* lines 513-524: the row label appended to drop_indices for one pair
DropOf(r1, r2) ==
    LET rank1 == jlpt_rank(r1.jlpt_level)
        rank2 == jlpt_rank(r2.jlpt_level)
    IN  IF rank1 > rank2 THEN r1.index
        ELSE IF rank2 > rank1 THEN r2.index
        ELSE IF r1.index > r2.index THEN r1.index ELSE r2.index

\* variant: both rows of every pair are dropped
DropIndices_BothOfPair(table) ==
    {table[p[1]].index : p \in Pairs(table)} \cup {table[p[2]].index : p \in Pairs(table)}

\* variant: the loop stops after one pair
DropIndices_OnePair(table) ==
    IF Pairs(table) = {} THEN {}
    ELSE LET p == CHOOSE q \in Pairs(table) : TRUE
         IN  {DropOf(table[p[1]], table[p[2]])}

\* line 527: set(drop_indices)
DropIndices(table) == {DropOf(table[p[1]], table[p[2]]) : p \in Pairs(table)}

\* line 527: df.drop(index=...)
Remaining(table, drop) ==
    LET Stays(row) == row.index \notin drop
    IN  SelectSeq(table, Stays)

drop_equivalent_rows(table) ==
    IF RankRaises(table) THEN Raise("KeyError")
    ELSE Return(Remaining(table, DropIndices(table)))

-----------------------------------------------------------------------------
(* AnkiPackage (jlpt_anki.py) *)

\* A note handed to add_note is a row of the final table: a record
\* [expression, english_definition, reading, grammar, additional, tags,
\* wani_audio_path].  A path is a record [isna, name]: isna for the missing
\* value (NaN), name for Path.name.  A package is a record [audio, decks,
\* entries, audio_paths]; a deck is the list of its notes (genanki.Deck.notes)
\* and a note of a deck is a record [model, fields, tags, due].

\* init_decks: the six nested decks, none with a note (index 0 is the top
\* deck, 1..5 are N1..N5)
EmptyDecks == [i \in 1..6 |-> << >>]

\* __init__ (lines 83-93); audio_paths exists for the extended type only
\* and is held empty for the core type
NewPackage(type) ==
    [audio |-> type # "core", decks |-> EmptyDecks, entries |-> << >>,
     audio_paths |-> << >>]

\* get_deck: deck_mapping, the position in self.decks
deck_mapping(deck_name) ==
    CASE deck_name = "N5" -> 5
      [] deck_name = "N4" -> 4
      [] deck_name = "N3" -> 3
      [] deck_name = "N2" -> 2
      [] deck_name = "N1" -> 1

\* line 155: the note's expression is in self.entries
IsRepeat(pkg, note) == InList(note.expression, pkg.entries)

\* "[sound:" + filename + "]"
SoundField(path) == <<91, 115, 111, 117, 110, 100, 58>> \o path.name \o <<93>>

\* lines 162-182: the genanki.Note made for the row
MyNote(pkg, note, notes_in_deck) ==
    LET base == <<note.expression, note.english_definition, note.reading,
                  note.grammar, note.additional>>
    IN  [model |-> IF pkg.audio THEN "model_audio" ELSE "model_core",
         fields |-> IF ~pkg.audio THEN base
                    ELSE IF ~note.wani_audio_path.isna
                         THEN Append(base, SoundField(note.wani_audio_path))
                         ELSE Append(base, << >>),
         tags |-> note.tags,
         due |-> notes_in_deck]

\* variant: the expression is not recorded
RecordEntry_Nothing(pkg, note) == pkg.entries

\* line 185
RecordEntry(pkg, note) == Append(pkg.entries, note.expression)

\* add_note (lines 143-185): the package after the call
add_note(pkg, note, deck_name) ==
    IF IsRepeat(pkg, note) THEN pkg
    ELSE LET d == deck_mapping(deck_name) + 1
             my_note == MyNote(pkg, note, Len(pkg.decks[d]))
         IN  [audio |-> pkg.audio,
              decks |-> [pkg.decks EXCEPT ![d] = Append(@, my_note)],
              entries |-> RecordEntry(pkg, note),
              audio_paths |->
                  IF pkg.audio /\ ~note.wani_audio_path.isna
                  THEN Append(pkg.audio_paths, note.wani_audio_path)
                  ELSE pkg.audio_paths]

-----------------------------------------------------------------------------
(* One call of make_furigana, a loop iteration per step *)

\* characters of the surface forms: U+65E5 (ideograph), U+FF17 (full-width
\* digit seven), U+FF22 (full-width Latin capital B), U+3042 and U+304B
\* (hiragana a, ka)
SurfaceAlphabet == {26085, 65303, 65314, 12354, 12363}

\* characters of the kana readings: U+3042, U+304B
KanaAlphabet == {12354, 12363}

NoOutcome == [kind |-> "none", value |-> << >>]

\* where a call stands once its outcome is known
PcOf(outcome) == IF outcome.kind = "raise" THEN "raised" ELSE "done"

MfSt == [tt |-> tt, outWord |-> outWord, lastMatchLoc |-> lastMatchLoc, scanPos |-> scanPos]

MfSetLocals(st) ==
    /\ tt' = st.tt
    /\ outWord' = st.outWord
    /\ lastMatchLoc' = st.lastMatchLoc
    /\ scanPos' = st.scanPos

\* lines 223-226
MfLocalsInit ==
    /\ tt = FuriganaLocals.tt
    /\ outWord = FuriganaLocals.outWord
    /\ lastMatchLoc = FuriganaLocals.lastMatchLoc
    /\ scanPos = FuriganaLocals.scanPos

MfIdle ==
    /\ mfpc = "idle"
    /\ kanji = << >>
    /\ kana = << >>
    /\ MfLocalsInit
    /\ mfResult = NoOutcome

FIdle ==
    /\ fpc = "idle"
    /\ additional_lst = << >>
    /\ primary_eng_defns = << >>
    /\ filtered_defs = << >>

TIdle ==
    /\ tpc = "idle"
    /\ df = << >>
    /\ rdf = NoOutcome
    /\ out = NoOutcome

AIdle ==
    /\ apc = "idle"
    /\ sense = << >>
    /\ ai = 0
    /\ adds = << >>

\* no package made
PIdle ==
    /\ audio = FALSE
    /\ decks = << >>
    /\ entries = << >>
    /\ audio_paths = << >>
    /\ calls = << >>

MfInit ==
    /\ mfpc = "call"
    /\ kanji \in Texts(SurfaceAlphabet, MaxKanjiLen)
    /\ kana \in Texts(KanaAlphabet, MaxKanaLen)
    /\ MfLocalsInit
    /\ mfResult = NoOutcome
    /\ FIdle
    /\ TIdle
    /\ AIdle
    /\ PIdle

\* lines 210-212
MfNoKana ==
    /\ mfpc = "call"
    /\ kana = << >>
    /\ mfResult' = make_furigana(kanji, kana)
    /\ mfpc' = PcOf(mfResult')
    /\ UNCHANGED <<kanji, kana, tt, outWord, lastMatchLoc, scanPos, fVars, tVars, aVars, pVars>>

\* lines 213-214
MfNoKanji ==
    /\ mfpc = "call"
    /\ kana # << >>
    /\ kanji = << >>
    /\ mfResult' = make_furigana(kanji, kana)
    /\ mfpc' = PcOf(mfResult')
    /\ UNCHANGED <<kanji, kana, tt, outWord, lastMatchLoc, scanPos, fVars, tVars, aVars, pVars>>

\* lines 215-229
MfEnterLoop ==
    /\ mfpc = "call"
    /\ kana # << >>
    /\ kanji # << >>
    /\ mfpc' = "loop"
    /\ MfSetLocals(FuriganaLocals)
    /\ UNCHANGED <<kanji, kana, mfResult, fVars, tVars, aVars, pVars>>

\* lines 231-263: an iteration that aligns the next kanji run
MfIterate ==
    /\ mfpc = "loop"
    /\ NextKanjiMatch(kanji, MfSt) # -1
    /\ ~StepFails(kanji, kana, MfSt)
    /\ MfSetLocals(FuriganaStep(kanji, kana, MfSt))
    /\ UNCHANGED <<mfpc, kanji, kana, mfResult, fVars, tVars, aVars, pVars>>

\* lines 239-246: an iteration that gives up
MfNotFound ==
    /\ mfpc = "loop"
    /\ NextKanjiMatch(kanji, MfSt) # -1
    /\ StepFails(kanji, kana, MfSt)
    /\ mfResult' = NotFoundOutcome(MfSt)
    /\ mfpc' = PcOf(mfResult')
    /\ UNCHANGED <<kanji, kana, tt, outWord, lastMatchLoc, scanPos, fVars, tVars, aVars, pVars>>

\* lines 265-269
MfExit ==
    /\ mfpc = "loop"
    /\ NextKanjiMatch(kanji, MfSt) = -1
    /\ outWord' = outWord \o SliceFrom(kanji, lastMatchLoc)
    /\ mfResult' = FuriganaExit(kanji, MfSt)
    /\ mfpc' = PcOf(mfResult')
    /\ UNCHANGED <<kanji, kana, tt, lastMatchLoc, scanPos, fVars, tVars, aVars, pVars>>

MfNext ==
    \/ MfNoKana
    \/ MfNoKanji
    \/ MfEnterLoop
    \/ MfIterate
    \/ MfNotFound
    \/ MfExit

SpecFurigana == MfInit /\ [][MfNext]_vars

\* the stepped call and the function agree on the outcome
MfAgree == mfpc \in {"done", "raised"} => mfResult = make_furigana(kanji, kana)

-----------------------------------------------------------------------------
(* One call of filter_english_definitions *)

Rep(c, n) == [i \in 1..n |-> c]

\* the additional definitions: "a", "A", U+00E9 (small e with acute),
\* 100 times "c", 100 times "e", 201 times "d"
DefinitionPool == {<<97>>, <<65>>, <<233>>, Rep(99, 100), Rep(101, 100), Rep(100, 201)}

\* the primary definitions: U+00C9 (capital E with acute)
PrimaryPool == {<<201>>}

\* the definitions flat cut into sense groups after the offsets in cuts
RECURSIVE Split(_, _)
Split(flat, cuts) ==
    IF flat = << >> THEN << >>
    ELSE LET ends == (cuts \cap 1..(Len(flat) - 1)) \cup {Len(flat)}
             e == CHOOSE i \in ends : \A j \in ends : i <= j
         IN  <<SubSeq(flat, 1, e)>>
                 \o Split(SubSeq(flat, e + 1, Len(flat)), {c - e : c \in cuts \ 1..e})

SenseLists(n) ==
    {Split(flat, cuts) : flat \in Texts(DefinitionPool, n), cuts \in SUBSET (1..(n - 1))}

FInit ==
    /\ fpc = "call"
    /\ additional_lst \in SenseLists(MaxDefs)
    /\ primary_eng_defns \in Texts(PrimaryPool, MaxPrimary)
    /\ filtered_defs = << >>
    /\ MfIdle
    /\ TIdle
    /\ AIdle
    /\ PIdle

\* lines 289-304
FDedup ==
    /\ fpc = "call"
    /\ filtered_defs' = Dedup(additional_lst, primary_eng_defns)
    /\ fpc' = "limit"
    /\ UNCHANGED <<additional_lst, primary_eng_defns, mfVars, tVars, aVars, pVars>>

\* lines 305-314
FLimit ==
    /\ fpc = "limit"
    /\ filtered_defs' = LimitLetters(filtered_defs)
    /\ fpc' = "done"
    /\ UNCHANGED <<additional_lst, primary_eng_defns, mfVars, tVars, aVars, pVars>>

FNext ==
    \/ FDedup
    \/ FLimit

SpecFilter == FInit /\ [][FNext]_vars

\* the stepped call and the function agree
FAgree ==
    fpc = "done" => filtered_defs = filter_english_definitions(additional_lst, primary_eng_defns)

-----------------------------------------------------------------------------
(* prepare_word_record, then drop_equivalent_rows, as lines 557 and 560 of
   transform chain them.  The table is the one transform has built when it
   reaches line 557: the csv rows that clean kept (kanji filled, labels as
   the csv gave them) joined with what lookup_dict found for each.  What
   transform does with the table afterwards (the audio merge, the download
   of missing audio, finalise) is not part of this specification. *)

\* a row as lookup_dict and the csv give it; the definitions are "a", "B"
\* with the additional senses ["A", "b"] and ["e"], the grammar is ["n"]
Entry(kj, rk, kn, misc, level) ==
    [kanji |-> kj, reading_kanji |-> rk, reading_kana |-> kn, misc |-> misc,
     jlpt_level |-> level,
     english_definition |-> <<<<97>>, <<66>>>>,
     additional |-> <<<<<<65>>, <<98>>>>, <<<<101>>>>>>,
     grammar |-> <<"n">>]

\* the row with its label (a RangeIndex: 0, 1, ...)
WithIndex(e, i) ==
    [index |-> i, kanji |-> e.kanji, jlpt_level |-> e.jlpt_level,
     reading_kanji |-> e.reading_kanji, reading_kana |-> e.reading_kana,
     english_definition |-> e.english_definition, grammar |-> e.grammar,
     additional |-> e.additional, misc |-> e.misc]

TablesOf(pool, k) ==
    {[i \in 1..k |-> WithIndex(f[i], i - 1)] : f \in [1..k -> pool]}

\* (csv kanji, dictionary kanji): a kana-only word, a word the csv lists in
\* kana though the dictionary has a kanji form, a word with a kanji form
Forms == {<<<< >>, << >>>>, <<<< >>, <<26085>>>>, <<<<26085>>, <<26085>>>>}

\* tables of up to MaxRows rows that all read U+3042, of two levels
NarrowEntries ==
    {Entry(f[1], f[2], <<12354>>, m, l) :
        f \in Forms, m \in {<< >>, <<"uk">>}, l \in {"N5", "N1"}}

\* tables of two rows of every level, and of a level jlpt_rank does not know
PairEntries ==
    {Entry(f[1], f[2], <<12354>>, m, l) :
        f \in Forms, m \in {<< >>, <<"uk">>}, l \in KnownLevels \cup {"N0"}}

\* characters of the forms of a one-row table: U+65E5, U+3042
EntryAlphabet == {26085, 12354}

MiscPool ==
    {<< >>, <<"uk">>, <<"hon">>, <<"rare">>, <<"pol", "uk", "rare">>, <<"hum", "hon">>}

\* one row with any forms up to length n; the csv has the dictionary's
\* kanji form or none
WideEntries(n) ==
    UNION {{Entry(kj, rk, kn, m, "N5") : kj \in {<< >>, rk}, m \in MiscPool} :
              rk \in Texts(EntryAlphabet, n),
              kn \in Texts(KanaAlphabet, n)}

\* rows for tables of two: a word whose kana tail (U+3042) is not in its
\* reading (U+304B), a word without a reading, a kana-only word
MixedEntries ==
    {Entry(<<26085, 12354>>, <<26085, 12354>>, <<12363>>, << >>, "N5"),
     Entry(<<26085>>, <<26085>>, << >>, << >>, "N5"),
     Entry(<< >>, << >>, <<12354>>, << >>, "N4")}

InputTables(rows, n) ==
    UNION {TablesOf(NarrowEntries, k) : k \in 1..rows}
        \cup TablesOf(PairEntries, 2)
        \cup TablesOf(MixedEntries, 2)
        \cup TablesOf(WideEntries(n), 1)

TInit ==
    /\ tpc = "prepare"
    /\ df \in InputTables(MaxRows, MaxEntryLen)
    /\ rdf = NoOutcome
    /\ out = NoOutcome
    /\ MfIdle
    /\ FIdle
    /\ AIdle
    /\ PIdle

\* line 557
TPrepare ==
    /\ tpc = "prepare"
    /\ rdf' = prepare_word_record(df)
    /\ tpc' = IF rdf'.kind = "raise" THEN "raised" ELSE "resolve"
    /\ UNCHANGED <<df, out, mfVars, fVars, aVars, pVars>>

\* line 560
TResolve ==
    /\ tpc = "resolve"
    /\ out' = drop_equivalent_rows(rdf.value)
    /\ tpc' = PcOf(out')
    /\ UNCHANGED <<df, rdf, mfVars, fVars, aVars, pVars>>

TNext ==
    \/ TPrepare
    \/ TResolve

Spec == TInit /\ [][TNext]_vars

-----------------------------------------------------------------------------
(* One call of find_addition_engl, a sense per step *)

\* misc of a sense
SenseMiscPool == {<< >>, <<"uk">>, <<"arch">>, <<"uk", "place">>}

\* partOfSpeech of a sense
SensePosPool == {<<"n">>, <<"n", "vs">>}

\* gloss texts of a sense: ["a"], ["b", "a"]
SenseGlossPool == {<<<<97>>>>, <<<<98>>, <<97>>>>}

SensePool ==
    [misc : SenseMiscPool, partOfSpeech : SensePosPool, gloss : SenseGlossPool]

AInit ==
    /\ apc = "loop"
    /\ sense \in Texts(SensePool, MaxSenses)
    /\ ai = 1
    /\ adds = << >>
    /\ MfIdle
    /\ FIdle
    /\ TIdle
    /\ PIdle

\* lines 179-191: an iteration that appends the glosses of the sense
AAccept ==
    /\ apc = "loop"
    /\ ai < Len(sense)
    /\ Accept(sense[ai + 1], sense[1])
    /\ adds' = Append(adds, sense[ai + 1].gloss)
    /\ ai' = ai + 1
    /\ UNCHANGED <<apc, sense, mfVars, fVars, tVars, pVars>>

\* lines 179-190: an iteration that leaves the sense out
ASkip ==
    /\ apc = "loop"
    /\ ai < Len(sense)
    /\ ~Accept(sense[ai + 1], sense[1])
    /\ ai' = ai + 1
    /\ UNCHANGED <<apc, sense, adds, mfVars, fVars, tVars, pVars>>

\* line 192
AReturn ==
    /\ apc = "loop"
    /\ ai >= Len(sense)
    /\ apc' = "done"
    /\ UNCHANGED <<sense, ai, adds, mfVars, fVars, tVars, pVars>>

ANext ==
    \/ AAccept
    \/ ASkip
    \/ AReturn

SpecAdditional == AInit /\ [][ANext]_vars

\* the stepped call and the function agree
AAgree == apc = "done" => adds = find_addition_engl(sense)

-----------------------------------------------------------------------------
(* add_note calls on one AnkiPackage, as load() makes them *)

NaN == [isna |-> TRUE, name |-> << >>]

\* "x.mp3"
AudioPath == [isna |-> FALSE, name |-> <<120, 46, 109, 112, 51>>]

\* rows with the expression U+65E5 or U+3042, the definition "a" or "b",
\* with and without an audio file
NotePool ==
    {[expression |-> e, english_definition |-> d, reading |-> <<12354>>,
      grammar |-> <<110, 111, 117, 110>>, additional |-> << >>, tags |-> <<"">>,
      wani_audio_path |-> w] :
        e \in {<<26085>>, <<12354>>}, d \in {<<97>>, <<98>>}, w \in {NaN, AudioPath}}

\* row["jlpt_level"] of the rows offered
DeckNamePool == {"N5", "N3"}

Pkg == [audio |-> audio, decks |-> decks, entries |-> entries, audio_paths |-> audio_paths]

PkgSet(pkg) ==
    /\ decks' = pkg.decks
    /\ entries' = pkg.entries
    /\ audio_paths' = pkg.audio_paths
    /\ UNCHANGED audio

\* load(), line 598: package = AnkiPackage(dt)
PInit ==
    /\ \E type \in {"core", "extended"} :
          /\ audio = NewPackage(type).audio
          /\ decks = NewPackage(type).decks
          /\ entries = NewPackage(type).entries
          /\ audio_paths = NewPackage(type).audio_paths
    /\ calls = << >>
    /\ MfIdle
    /\ FIdle
    /\ TIdle
    /\ AIdle

\* one call package.add_note(row, row["jlpt_level"])
AddNoteCall(note, deck_name) ==
    /\ Len(calls) < MaxCalls
    /\ PkgSet(add_note(Pkg, note, deck_name))
    /\ calls' = Append(calls, [note |-> note, deck_name |-> deck_name])
    /\ UNCHANGED <<mfVars, fVars, tVars, aVars>>

\* lines 155-157: the expression was added before
AddNoteRepeat ==
    \E note \in NotePool, deck_name \in DeckNamePool :
        IsRepeat(Pkg, note) /\ AddNoteCall(note, deck_name)

\* lines 159-185 for the core package
AddNoteCore ==
    \E note \in NotePool, deck_name \in DeckNamePool :
        ~IsRepeat(Pkg, note) /\ ~audio /\ AddNoteCall(note, deck_name)

\* lines 159-185 for the extended package, a row with an audio file
AddNoteSound ==
    \E note \in NotePool, deck_name \in DeckNamePool :
        /\ ~IsRepeat(Pkg, note) /\ audio /\ ~note.wani_audio_path.isna
        /\ AddNoteCall(note, deck_name)

\* lines 159-185 for the extended package, a row without an audio file
AddNoteSilent ==
    \E note \in NotePool, deck_name \in DeckNamePool :
        /\ ~IsRepeat(Pkg, note) /\ audio /\ note.wani_audio_path.isna
        /\ AddNoteCall(note, deck_name)

PNext ==
    \/ AddNoteRepeat
    \/ AddNoteCore
    \/ AddNoteSound
    \/ AddNoteSilent

SpecPackage == PInit /\ [][PNext]_vars

-----------------------------------------------------------------------------
(* Properties of make_furigana *)

MfFinished == mfpc \in {"done", "raised"}

IsIdeograph(c) == c \in 19968..40879 \/ c = 12293
IsFullWidthDigit(c) == c \in 65296..65305
IsFullWidthCapital(c) == c \in 65313..65338

\* C3: a surface form made only of ideographs, full-width digits and
\* full-width Latin capitals is a single kanji run, so the result is the
\* surface form followed by the whole reading in brackets.
C3_WideGlyphsAreKanji ==
    ( /\ mfpc = "done"
      /\ kanji # << >>
      /\ \A i \in 1..Len(kanji) :
            IsIdeograph(kanji[i]) \/ IsFullWidthDigit(kanji[i]) \/ IsFullWidthCapital(kanji[i]) )
    => mfResult = Return(kanji \o <<91>> \o kana \o <<93>>)

\* C4 as stated: with an empty kanji form the reading is returned unchanged,
\* for every reading.
C4_EmptyKanjiReturnsAnyKana ==
    (MfFinished /\ kanji = << >>) => mfResult = Return(kana)

\* C4 (amended): with an empty kanji form a non-empty reading is returned
\* unchanged; with both empty the call raises AssertionError.
C4_EmptyKanjiReturnsKana ==
    (MfFinished /\ kanji = << >>) =>
        IF kana # << >> THEN mfResult = Return(kana)
        ELSE mfResult = Raise("AssertionError")

C4_Witness == mfpc = "done" /\ kanji = << >> /\ Len(kana) >= 2 /\ mfResult.value = kana

\* C5: with an empty reading and a non-empty kanji form the call raises and
\* returns no value.
C5_EmptyKanaRaises ==
    (mfpc # "call" /\ kana = << >> /\ kanji # << >>) =>
        (mfpc = "raised" /\ mfResult = Raise("AssertionError"))

C5_Witness == mfpc = "raised" /\ kana = << >> /\ Len(kanji) >= 2

\* the next kanji run at or after scanPos is [a, b), the first kana run of
\* the surface form after it is [c, d), and the text of that kana run does
\* not occur in the reading at or after offset b + tt
C6_PendingUnmatched ==
    \E a \in scanPos..(Len(kanji) - 1) : \E b \in (a + 1)..Len(kanji) :
    \E c \in b..(Len(kanji) - 1) : \E d \in (c + 1)..Len(kanji) :
        /\ \A i \in scanPos..(a - 1) : ~IsKanjiChar(kanji[i + 1])
        /\ \A i \in a..(b - 1) : IsKanjiChar(kanji[i + 1])
        /\ (b = Len(kanji) \/ ~IsKanjiChar(kanji[b + 1]))
        /\ \A i \in b..(c - 1) : ~IsKanaChar(kanji[i + 1])
        /\ \A i \in c..(d - 1) : IsKanaChar(kanji[i + 1])
        /\ (d = Len(kanji) \/ ~IsKanaChar(kanji[d + 1]))
        /\ \A p \in (b + tt)..(Len(kana) - (d - c)) :
              SubSeq(kana, p + 1, p + (d - c)) # SubSeq(kanji, c + 1, d)

\* C6: a call that stopped at a kanji run whose following kana run is not
\* found in the reading returned the empty string, without raising and
\* whatever was already assembled in outWord.
C6_NotFoundReturnsEmpty ==
    (mfpc # "call" /\ kanji # << >> /\ kana # << >> /\ C6_PendingUnmatched) =>
        (mfpc = "loop" \/ (mfpc = "done" /\ mfResult = Return(<< >>)))

C6_Witness ==
    /\ mfpc = "done"
    /\ C6_PendingUnmatched
    /\ lastMatchLoc > 0
    /\ outWord # << >>
    /\ mfResult = Return(<< >>)

\* the kanji run the loop is at: [RunStart, RunEnd) in the surface form
RunStart == FirstKanjiIdx(kanji, scanPos)
RunEnd == KanjiRunEnd(kanji, RunStart)

\* the alignment cursor: the offset in the reading the brackets start at
Cursor == RunStart + tt

\* the kana run K of the surface form after the kanji run, << >> if none
TrailingKana ==
    LET c == FirstKanaIdx(kanji, RunEnd)
    IN  IF c = -1 THEN << >> ELSE Slice(kanji, c, KanaRunEnd(kanji, c))

\* offset of the first occurrence of K in the reading at or after from, -1
\* if there is none
FirstOccurrence(from) ==
    LET K == TrailingKana
        occ == {p \in from..(Len(kana) - Len(K)) : Slice(kana, p, p + Len(K)) = K}
    IN  IF occ = {} THEN -1 ELSE CHOOSE p \in occ : \A q \in occ : p <= q

\* an iteration of the loop that emitted a segment with reading r in the
\* brackets
Emitted(r) ==
    outWord' = outWord \o Slice(kanji, lastMatchLoc, RunStart)
                   \o <<32>> \o Slice(kanji, RunStart, RunEnd) \o <<91>> \o r \o <<93>>

\* a segment was emitted whose reading runs from the cursor to the first
\* occurrence of K at or after from
EmittedUpTo(from) ==
    FirstOccurrence(from) # -1 /\ Emitted(Slice(kana, Cursor, FirstOccurrence(from)))

\* C15 as stated: the reading in the brackets runs from the cursor to the
\* first occurrence of K found searching from the cursor, or to the end of
\* the reading when no kana run follows.
C15_SearchFromCursor ==
    [][(mfpc = "loop" /\ mfpc' = "loop" /\ outWord' # outWord) =>
          IF TrailingKana = << >> THEN Emitted(SliceFrom(kana, Cursor))
          ELSE EmittedUpTo(Cursor)]_vars

\* C15 (amended): the reading in the brackets runs from the cursor to the
\* first occurrence of K found searching from the cursor plus the length of
\* the kanji run, or to the end of the reading when no kana run follows.
C15_SearchPastKanjiRun ==
    [][(mfpc = "loop" /\ mfpc' = "loop" /\ outWord' # outWord) =>
          IF TrailingKana = << >> THEN Emitted(SliceFrom(kana, Cursor))
          ELSE EmittedUpTo(Cursor + (RunEnd - RunStart))]_vars

\* U+65E5 U+304B read U+304B U+3042 U+304B: the kana run is found at offset
\* 2, not at the cursor, and the brackets hold the first two kana
C15_Witness ==
    /\ mfpc = "done"
    /\ kanji = <<26085, 12363>>
    /\ kana = <<12363, 12354, 12363>>
    /\ mfResult = Return(<<26085, 91, 12363, 12354, 93, 12363>>)

\* positions (1-based) where a kanji run of s starts, and where one ends
RunStarts(s) ==
    {i \in 1..Len(s) : IsKanjiChar(s[i]) /\ (i = 1 \/ ~IsKanjiChar(s[i - 1]))}
RunEnds(s) ==
    {i \in 1..Len(s) : IsKanjiChar(s[i]) /\ (i = Len(s) \/ ~IsKanjiChar(s[i + 1]))}

Occurrences(s, c) == {i \in 1..Len(s) : s[i] = c}

\* position i of r lies in a bracketed segment, the brackets included
InBrackets(r, i) ==
    Cardinality({j \in 1..i : r[j] = 91}) > Cardinality({j \in 1..(i - 1) : r[j] = 93})

\* r without its bracketed segments and its spaces
Skeleton(r) ==
    LET keep == {i \in 1..Len(r) : ~InBrackets(r, i) /\ r[i] # 32}
    IN  [n \in 1..Cardinality(keep) |->
            r[CHOOSE i \in keep : Cardinality({j \in keep : j < i}) = n - 1]]

\* the result r has the structure of the surface form k with a bracketed
\* segment directly after each kanji run and one space before each kanji
\* run that is not at the start
Segmented(r, k) ==
    /\ Cardinality(Occurrences(r, 91)) = Cardinality(RunStarts(k))
    /\ Cardinality(Occurrences(r, 93)) = Cardinality(RunStarts(k))
    /\ \A i \in RunEnds(r) : i < Len(r) /\ r[i + 1] = 91
    /\ \A i \in Occurrences(r, 91) : i > 1 /\ IsKanjiChar(r[i - 1])
    /\ \A i \in RunStarts(r) : i > 1 => (r[i - 1] = 32 /\ i > 2 /\ r[i - 2] # 32)
    /\ Cardinality(Occurrences(r, 32)) = Cardinality(RunStarts(k) \ {1})
    /\ r # << >> => (~IsSpace(r[1]) /\ ~IsSpace(r[Len(r)]))
    /\ Skeleton(r) = k

\* C16 as stated: whenever the call succeeds, on any surface form, the
\* result has one bracketed segment directly after each kanji run, one space
\* before each kanji run not at the start, no space at either end, and is
\* the surface form once the segments and the spaces are deleted.
C16_SegmentsAnySurface ==
    (mfpc = "done" /\ (kanji = << >> \/ mfResult.value # << >>)) =>
        Segmented(mfResult.value, kanji)

\* C16 (amended): the same for every non-empty surface form; for the empty
\* surface form the result is the reading as it is.
C16_SegmentsNonEmptySurface ==
    mfpc = "done" =>
        /\ (kanji # << >> /\ mfResult.value # << >>) => Segmented(mfResult.value, kanji)
        /\ kanji = << >> => mfResult.value = kana

\* U+65E5 U+304B U+65E5 read U+3042 U+304B U+3042: two runs, kana between
C16_Witness ==
    /\ mfpc = "done"
    /\ kanji = <<26085, 12363, 26085>>
    /\ kana = <<12354, 12363, 12354>>
    /\ mfResult.value = <<26085, 91, 12354, 93, 12363, 32, 26085, 91, 12354, 93>>

\* the reading rebuilt from a result r: what is inside the brackets and the
\* kana outside them, in order
Rebuilt(r) ==
    LET keep == {i \in 1..Len(r) :
                    IF InBrackets(r, i) THEN r[i] # 91 /\ r[i] # 93
                    ELSE IsKanaChar(r[i])}
    IN  [n \in 1..Cardinality(keep) |->
            r[CHOOSE i \in keep : Cardinality({j \in keep : j < i}) = n - 1]]

\* places of the opening brackets of the empty segments of r
EmptySegments(r) == {i \in 1..(Len(r) - 1) : r[i] = 91 /\ r[i + 1] = 93}

\* the surface form before its first kanji run and after its last one
LeadingText(k) ==
    IF RunStarts(k) = {} THEN k
    ELSE SubSeq(k, 1, (CHOOSE i \in RunStarts(k) : \A j \in RunStarts(k) : i <= j) - 1)
TrailingText(k) ==
    IF RunEnds(k) = {} THEN << >>
    ELSE SubSeq(k, (CHOOSE i \in RunEnds(k) : \A j \in RunEnds(k) : i >= j) + 1, Len(k))

\* the surface form has kanji-run and kana characters only
KanjiAndKanaOnly(k) == \A i \in 1..Len(k) : IsKanjiChar(k[i]) \/ IsKanaChar(k[i])

\* a call on a non-empty surface form that returned a non-empty result
NonEmptyResult == mfpc = "done" /\ kanji # << >> /\ mfResult.value # << >>

\* C21 as stated: for a non-empty result on a non-empty surface form the
\* rebuilt reading is the kana argument and no bracketed segment is empty.
C21_RebuiltIsKana ==
    NonEmptyResult =>
        (Rebuilt(mfResult.value) = kana /\ EmptySegments(mfResult.value) = {})

\* C21 (amended): for a non-empty result on a non-empty surface form of
\* kanji and kana, the rebuilt reading is the kana before the first kanji
\* run, then the reading from that length up to where the last alignment
\* ended (the end of the reading when the surface form ends in a kanji run),
\* then the kana after the last kanji run; so it is the kana argument exactly
\* when the leading kana start the reading and the last alignment ends it.
\* On any surface form only the segment of a kanji run with no kana after
\* it can be empty, and only when the reading is used up.
C21_RebuiltIsAlignedPart ==
    NonEmptyResult =>
        LET r == mfResult.value
            lead == LeadingText(kanji)
            tail == TrailingText(kanji)
            stop == IF tail = << >> THEN Len(kana) ELSE lastMatchLoc + tt
        IN  /\ (KanjiAndKanaOnly(kanji) /\ RunStarts(kanji) # {}) =>
                  /\ Rebuilt(r) = lead \o Slice(kana, Len(lead), stop) \o tail
                  /\ Rebuilt(r) = kana <=>
                        ( /\ lead = Slice(kana, 0, Len(lead))
                          /\ stop + Len(tail) = Len(kana)
                          /\ Len(lead) <= stop )
            /\ RunStarts(kanji) = {} => Rebuilt(r) = SelectSeq(kanji, IsKanaChar)
            /\ \A i \in EmptySegments(r) :
                  /\ \A j \in (i + 2)..Len(r) : ~IsKanaChar(r[j])
                  /\ lastMatchLoc + tt >= Len(kana)

\* U+3042 U+65E5 U+304B read U+3042 U+304B U+304B: kana before and after the
\* kanji run, and the reading is rebuilt
C21_Witness ==
    /\ NonEmptyResult
    /\ kanji = <<12354, 26085, 12363>>
    /\ kana = <<12354, 12363, 12363>>
    /\ mfResult.value = <<12354, 32, 26085, 91, 12363, 93, 12363>>
    /\ Rebuilt(mfResult.value) = kana

-----------------------------------------------------------------------------
(* Properties of prepare_word_record and drop_equivalent_rows *)

\* the tiers, easiest first
TierOrder == <<"N5", "N4", "N3", "N2", "N1", "common">>
TierKnown(level) == \E i \in 1..Len(TierOrder) : TierOrder[i] = level
TierOf(level) == CHOOSE i \in 1..Len(TierOrder) : TierOrder[i] = level

\* rows a and b of table t are a qualifying pair: same reading, a with a
\* kanji form and the usually_kana tag, b without a kanji form
Qualifying(t, a, b) ==
    /\ t[a].reading = t[b].reading
    /\ t[a].kanji # << >>
    /\ \E k \in 1..Len(t[a].tags) : t[a].tags[k] = "usually_kana"
    /\ t[b].kanji = << >>

\* the row of a qualifying pair that is to go: the harder one, on a tie the
\* one with the larger index
Loser(t, a, b) ==
    IF TierOf(t[a].jlpt_level) > TierOf(t[b].jlpt_level) THEN a
    ELSE IF TierOf(t[b].jlpt_level) > TierOf(t[a].jlpt_level) THEN b
    ELSE IF t[a].index > t[b].index THEN a ELSE b

Marked(t, i) ==
    \E a, b \in 1..Len(t) : Qualifying(t, a, b) /\ Loser(t, a, b) = i

InPair(t, i) ==
    \E j \in 1..Len(t) : Qualifying(t, i, j) \/ Qualifying(t, j, i)

Present(o, row) == \E k \in 1..Len(o) : o[k].index = row.index

Resolved == tpc = "done" /\ out.kind = "return"

\* C1: of every qualifying pair the harder row is absent from the output,
\* on equal tiers the row with the larger index; a table of just such a
\* pair with the kanji row the harder one comes back as the no-kanji row.
C1_HarderRowDropped ==
    Resolved =>
        LET t == rdf.value
            o == out.value
        IN  /\ \A a, b \in 1..Len(t) :
                  Qualifying(t, a, b) => ~Present(o, t[Loser(t, a, b)])
            /\ \A a, b \in 1..Len(t) :
                  ( /\ Len(t) = 2
                    /\ Qualifying(t, a, b)
                    /\ TierOf(t[a].jlpt_level) > TierOf(t[b].jlpt_level) )
                  => o = <<t[b]>>

C1_Witness ==
    /\ Resolved
    /\ Len(rdf.value) = 2
    /\ Qualifying(rdf.value, 1, 2)
    /\ rdf.value[1].jlpt_level = "N1"
    /\ rdf.value[2].jlpt_level = "N2"
    /\ out.value = <<rdf.value[2]>>

\* C2: in the table prepare_word_record returns, the reading of every row
\* with the uk marker is its kana reading; a table of such rows only is
\* always returned, whatever make_furigana does with their forms.
C2_UsuallyKanaReading ==
    tpc # "prepare" =>
        /\ rdf.kind = "return" =>
              \A i \in 1..Len(df) :
                  (\E k \in 1..Len(df[i].misc) : df[i].misc[k] = "uk")
                      => rdf.value[i].reading = df[i].reading_kana
        /\ (\A i \in 1..Len(df) : \E k \in 1..Len(df[i].misc) : df[i].misc[k] = "uk")
              => rdf.kind = "return"

\* a uk row whose forms make_furigana would align to something else
C2_Witness ==
    /\ tpc # "prepare"
    /\ Len(df) = 1
    /\ df[1].misc = <<"uk">>
    /\ df[1].reading_kanji = <<26085, 12354>>
    /\ df[1].reading_kana = <<12363, 12354>>
    /\ rdf.kind = "return"
    /\ rdf.value[1].reading = <<12363, 12354>>

\* C7: the output is the input in its order without the marked rows: each
\* output row is an input row as it was, the rows come in the input's order,
\* a row is absent exactly when it is marked, and a row in no qualifying
\* pair is present.
C7_OnlyMarkedRowsDropped ==
    Resolved =>
        LET t == rdf.value
            o == out.value
        IN  /\ \A k \in 1..Len(o) : \E i \in 1..Len(t) : t[i] = o[k]
            /\ \A k, l \in 1..Len(o) : k < l => o[k].index < o[l].index
            /\ \A i \in 1..Len(t) : Marked(t, i) <=> ~Present(o, t[i])
            /\ \A i \in 1..Len(t) : ~InPair(t, i) => \E k \in 1..Len(o) : o[k] = t[i]

\* a kanji row marked by two pairs
C7_Witness ==
    /\ Resolved
    /\ Len(rdf.value) = 3
    /\ Qualifying(rdf.value, 2, 1)
    /\ Qualifying(rdf.value, 2, 3)
    /\ Loser(rdf.value, 2, 1) = 2
    /\ Loser(rdf.value, 2, 3) = 2
    /\ out.value = <<rdf.value[1], rdf.value[3]>>

\* C8: a row counts as no-kanji in drop_equivalent_rows exactly when its
\* expression is its kana reading, and as kanji+usually_kana exactly when
\* its expression is a non-empty kanji form and it has the usually_kana tag.
C8_SameKanjiForm ==
    (tpc \in {"resolve", "done"} /\ rdf.kind = "return") =>
        \A i \in 1..Len(rdf.value) :
            LET r == rdf.value[i]
            IN  /\ blank_kanji(r) <=> r.expression = r.reading_kana
                /\ has_kanji_and_usually_kana(r) <=>
                      ( /\ r.reading_kanji # << >>
                        /\ r.expression = r.reading_kanji
                        /\ \E k \in 1..Len(r.tags) : r.tags[k] = "usually_kana" )

\* C9: the call raises whenever a row has a tier outside the ordering.  The
\* only look-up of a tier is that of lines 513-514, made for the rows of
\* qualifying pairs, so a row of an unknown tier in no such pair is returned
\* without an error.
C9_UnknownTierAlwaysRaises ==
    (tpc \in {"done", "raised"} /\ rdf.kind = "return") =>
        ((\E i \in 1..Len(rdf.value) : ~TierKnown(rdf.value[i].jlpt_level))
            => out.kind = "raise")

\* the tags the markers of a row call for: the labels of its hon, pol and
\* hum markers in their order, usually_kana if it has uk, rare_term if it
\* has rare
FormalityLabel(x) ==
    IF x = "hon" THEN "honorific/U+5C0A U+656C U+8A9E"
    ELSE IF x = "pol" THEN "polite/U+4E01 U+5BE7 U+8A9E"
    ELSE "humble/U+8B19 U+8B72 U+8A9E"

HasMarker(row, x) == \E k \in 1..Len(row.misc) : row.misc[k] = x

ExpectedTags(row) ==
    LET IsFormality(x) == x = "hon" \/ x = "pol" \/ x = "hum"
        formal == SelectSeq(row.misc, IsFormality)
    IN  [k \in 1..Len(formal) |-> FormalityLabel(formal[k])]
            \o (IF HasMarker(row, "uk") THEN <<"usually_kana">> ELSE << >>)
            \o (IF HasMarker(row, "rare") THEN <<"rare_term">> ELSE << >>)

\* C13: the tags of a row are exactly its formality labels, then
\* usually_kana if and only if it is usually kana, then the rare marker if
\* and only if it is marked rare, and nothing else: a row with none of the
\* markers has no tags.
C13_TagsExactly ==
    (tpc # "prepare" /\ rdf.kind = "return") =>
        \A i \in 1..Len(df) : rdf.value[i].tags = ExpectedTags(df[i])

\* C14: a table that prepare_word_record returns has one row for each input
\* row, in the input's order, and the reading of a row that is not usually
\* kana and whose forms make_furigana aligns to the empty string is the
\* empty string, not the kana reading.
C14_EmptyReadingKept ==
    (tpc # "prepare" /\ rdf.kind = "return") =>
        /\ Len(rdf.value) = Len(df)
        /\ \A i \in 1..Len(df) :
              /\ rdf.value[i].index = df[i].index
              /\ ( /\ ~HasMarker(df[i], "uk")
                    /\ make_furigana(df[i].reading_kanji, df[i].reading_kana) = Return(<< >>) )
                 => rdf.value[i].reading = << >>

\* two rows, the first with forms that do not align
C14_Witness ==
    /\ tpc # "prepare"
    /\ rdf.kind = "return"
    /\ Len(df) = 2
    /\ df[1].reading_kanji = <<26085, 12354>>
    /\ df[1].reading_kana = <<12363>>
    /\ df[1].misc = << >>
    /\ Len(rdf.value) = 2
    /\ rdf.value[1].reading = << >>
    /\ rdf.value[2].reading = <<12354>>

\* the rows of table t with the reading of its row i
GroupOf(t, i) == {j \in 1..Len(t) : t[j].reading = t[i].reading}

\* row i comes before row j by tier, then by index
Before(t, i, j) ==
    \/ TierOf(t[i].jlpt_level) < TierOf(t[j].jlpt_level)
    \/ (TierOf(t[i].jlpt_level) = TierOf(t[j].jlpt_level) /\ t[i].index < t[j].index)

\* C19: every reading of the input is the reading of a row of the output,
\* and in each group the row that comes first by tier, then by index, among
\* the rows in qualifying pairs is in the output.
C19_GroupSurvives ==
    Resolved =>
        LET t == rdf.value
            o == out.value
        IN  /\ \A i \in 1..Len(t) : \E k \in 1..Len(o) : o[k].reading = t[i].reading
            /\ \A i \in 1..Len(t) :
                  ( /\ InPair(t, i)
                    /\ \A j \in GroupOf(t, i) \ {i} : InPair(t, j) => Before(t, i, j) )
                  => \E k \in 1..Len(o) : o[k] = t[i]

\* a group of three of which two rows are dropped
C19_Witness ==
    /\ Resolved
    /\ Len(rdf.value) = 3
    /\ GroupOf(rdf.value, 1) = {1, 2, 3}
    /\ Qualifying(rdf.value, 1, 2)
    /\ Qualifying(rdf.value, 3, 2)
    /\ out.value = <<rdf.value[2]>>

\* C20: the output has no qualifying pair, and drop_equivalent_rows of the
\* output returns the output.
C20_Idempotent ==
    Resolved =>
        /\ \A a, b \in 1..Len(out.value) : ~Qualifying(out.value, a, b)
        /\ drop_equivalent_rows(out.value) = Return(out.value)

\* a table that lost a row, and loses none when resolved again
C20_Witness ==
    /\ Resolved
    /\ Len(rdf.value) = 3
    /\ Len(out.value) = 2
    /\ \E a, b \in 1..3 : Qualifying(rdf.value, a, b)
    /\ drop_equivalent_rows(out.value) = out

-----------------------------------------------------------------------------
(* Properties of filter_english_definitions *)

\* the strings of seq in lower case
LowerAll(seq) == [i \in 1..Len(seq) |-> Lower(seq[i])]

\* offset in the lower-cased list low of the first string equal to ls, 0 if
\* none
FirstIn(low, ls) ==
    LET hits == {i \in 1..Len(low) : low[i] = ls}
    IN  IF hits = {} THEN 0 ELSE CHOOSE i \in hits : \A j \in hits : i <= j

\* C10: every string of the output is the first candidate of its
\* case-insensitive class, with that candidate's casing, none equals a
\* primary definition up to case, and the strings come in the order of the
\* flattened candidates (so no two are equal up to case).
C10_FilterDedup ==
    fpc = "done" =>
        LET flat == Flatten(additional_lst)
            low == LowerAll(flat)
            first == [k \in 1..Len(filtered_defs) |-> FirstIn(low, Lower(filtered_defs[k]))]
            plow == LowerAll(primary_eng_defns)
        IN  /\ \A k \in 1..Len(filtered_defs) :
                  /\ first[k] # 0
                  /\ flat[first[k]] = filtered_defs[k]
                  /\ \A i \in 1..Len(plow) : plow[i] # low[first[k]]
            /\ \A k, l \in 1..Len(filtered_defs) : k < l => first[k] < first[l]

\* "A" then "a" among the candidates, U+00C9 primary and U+00E9 a
\* candidate: the output keeps "A" only
C10_Witness ==
    /\ fpc = "done"
    /\ Flatten(additional_lst) = <<<<65>>, <<233>>, <<97>>>>
    /\ primary_eng_defns = <<<<201>>>>
    /\ filtered_defs = <<<<65>>>>

\* the deduplicated candidates: the definitions of the flattened list that
\* are the first of their case-insensitive class and equal no primary
\* definition up to case, in the list's order
Candidates ==
    LET flat == Flatten(additional_lst)
        low == LowerAll(flat)
        plow == LowerAll(primary_eng_defns)
        idx == {i \in 1..Len(flat) :
                   /\ FirstIn(low, low[i]) = i
                   /\ \A p \in 1..Len(plow) : plow[p] # low[i]}
    IN  [k \in 1..Cardinality(idx) |->
            flat[CHOOSE i \in idx : Cardinality({j \in idx : j < i}) = k - 1]]

\* summed lengths of the first n strings of seq
RECURSIVE TotalLength(_, _)
TotalLength(seq, n) == IF n = 0 THEN 0 ELSE Len(seq[n]) + TotalLength(seq, n - 1)

\* C11: the output is the longest prefix of the deduplicated candidates
\* whose lengths sum to at most 200: the first candidate that takes the sum
\* over 200 and all after it are left out, all before it are kept, and a sum
\* of exactly 200 cuts nothing.
C11_LongestPrefixWithinBudget ==
    fpc = "done" =>
        LET c == Candidates
            n == Len(filtered_defs)
        IN  /\ n <= Len(c)
            /\ filtered_defs = SubSeq(c, 1, n)
            /\ TotalLength(c, n) <= 200
            /\ \A m \in 0..Len(c) : TotalLength(c, m) <= 200 => m <= n
            /\ TotalLength(c, Len(c)) = 200 => n = Len(c)

\* two candidates of 100 characters are kept (the sum is exactly 200), the
\* one-character candidate after them is cut
C11_Witness ==
    /\ fpc = "done"
    /\ Candidates = <<Rep(99, 100), Rep(101, 100), <<97>>>>
    /\ filtered_defs = <<Rep(99, 100), Rep(101, 100)>>

\* C17 as stated: a first candidate that is by itself longer than 200
\* characters is still part of the output.
C17_OversizedFirstEmitted ==
    fpc = "done" =>
        LET c == Candidates
        IN  (c # << >> /\ Len(c[1]) > 200) =>
                (filtered_defs # << >> /\ filtered_defs[1] = c[1])

\* C17 (amended): no string longer than 200 characters is ever in the
\* output, and when the first candidate is by itself longer than 200
\* characters the output is empty.
C17_OversizedNeverEmitted ==
    fpc = "done" =>
        /\ \A k \in 1..Len(filtered_defs) : Len(filtered_defs[k]) <= 200
        /\ LET c == Candidates
           IN  (c # << >> /\ Len(c[1]) > 200) => filtered_defs = << >>

\* a candidate of 201 characters first, a one-character candidate after it
C17_Witness ==
    /\ fpc = "done"
    /\ Candidates = <<Rep(100, 201), <<97>>>>
    /\ filtered_defs = << >>

-----------------------------------------------------------------------------
(* Properties of find_addition_engl *)

\* positions of the senses after the first that pass both tests
QualifyingSenses ==
    {i \in 2..Len(sense) :
        /\ \A k \in 1..Len(sense[i].misc) :
              sense[i].misc[k] # "arch" /\ sense[i].misc[k] # "place"
        /\ sense[i].partOfSpeech = sense[1].partOfSpeech}

\* C12: the result has one gloss group for each sense after the first that
\* has neither arch nor place among its misc markers and the first sense's
\* part of speech, in the order of the senses; the other senses and the
\* first sense give nothing.
C12_AdditionalSenses ==
    apc = "done" =>
        /\ Len(adds) = Cardinality(QualifyingSenses)
        /\ \A k \in 1..Len(adds) :
              \E i \in QualifyingSenses :
                  /\ Cardinality({j \in QualifyingSenses : j < i}) = k - 1
                  /\ adds[k] = sense[i].gloss

\* an archaic sense, a sense of another part of speech and a sense that
\* passes, after a first sense that would itself fail the misc test
C12_Witness ==
    /\ apc = "done"
    /\ Len(sense) = 3
    /\ sense[1].misc = <<"arch">>
    /\ sense[1].gloss = <<<<97>>>>
    /\ sense[2].misc = <<"uk", "place">>
    /\ sense[2].partOfSpeech = sense[1].partOfSpeech
    /\ sense[3].misc = <<"uk">>
    /\ sense[3].partOfSpeech = sense[1].partOfSpeech
    /\ sense[3].gloss = <<<<98>>, <<97>>>>
    /\ adds = <<<<<<98>>, <<97>>>>>>

-----------------------------------------------------------------------------
(* Properties of AnkiPackage.add_note *)

\* the notes of all decks, as (deck, place in the deck)
NotePlaces == {p \in (1..Len(decks)) \X (1..MaxCalls) : p[2] <= Len(decks[p[1]])}

NoteAt(p) == decks[p[1]][p[2]]

\* the expressions offered so far, and the first call that offered e
OfferedExpressions == {calls[i].note.expression : i \in 1..Len(calls)}

FirstOffer(e) ==
    LET offers == {i \in 1..Len(calls) : calls[i].note.expression = e}
    IN  calls[CHOOSE i \in offers : \A j \in offers : i <= j]

\* place of the deck of a level in the package: the top deck, then N1..N5
DeckPlace(name) ==
    IF name = "N1" THEN 2 ELSE IF name = "N2" THEN 3 ELSE IF name = "N3" THEN 4
    ELSE IF name = "N4" THEN 5 ELSE 6

\* no expression twice over all decks, as many notes as expressions offered,
\* and the note of an expression is the one of the first call that offered
\* it, in that call's deck
OneNotePerExpression ==
    /\ \A p, q \in NotePlaces : p # q => NoteAt(p).fields[1] # NoteAt(q).fields[1]
    /\ Cardinality(NotePlaces) = Cardinality(OfferedExpressions)
    /\ \A e \in OfferedExpressions :
          \E p \in NotePlaces :
              /\ p[1] = DeckPlace(FirstOffer(e).deck_name)
              /\ NoteAt(p).fields[1] = e
              /\ NoteAt(p).fields[2] = FirstOffer(e).note.english_definition

\* a call with an expression offered before changes nothing of the package
RepeatChangesNothing ==
    ( /\ calls' # calls
      /\ \E i \in 1..Len(calls) :
            calls[i].note.expression = calls'[Len(calls')].note.expression )
    => UNCHANGED <<audio, decks, entries, audio_paths>>

\* C18: after any sequence of add_note calls no two notes of the package
\* have the same expression, there are as many notes as distinct expressions
\* offered, the first note offered for an expression is the one kept, and a
\* call with an expression already added leaves the decks, the entries and
\* the audio paths as they were.
C18_FirstNoteWins == []OneNotePerExpression /\ [][RepeatChangesNothing]_vars

\* U+65E5 offered to N5 as "a" with a sound file, then to N3 as "b", then
\* U+3042 to N3: two notes, the first offer kept
C18_Witness ==
    /\ audio
    /\ Len(calls) = 3
    /\ calls[1].note.expression = <<26085>>
    /\ calls[1].note.english_definition = <<97>>
    /\ calls[1].note.wani_audio_path = AudioPath
    /\ calls[1].deck_name = "N5"
    /\ calls[2].note.expression = <<26085>>
    /\ calls[2].note.english_definition = <<98>>
    /\ calls[2].deck_name = "N3"
    /\ calls[3].note.expression = <<12354>>
    /\ calls[3].deck_name = "N3"
    /\ Len(decks[6]) = 1
    /\ decks[6][1].fields[2] = <<97>>
    /\ Len(decks[4]) = 1
    /\ decks[4][1].fields[1] = <<12354>>
    /\ entries = <<<<26085>>, <<12354>>>>
    /\ audio_paths \in {<<AudioPath>>, <<AudioPath, AudioPath>>}

====
